---- MODULE Spec2Model ----
(***************************************************************************)
(* Model of the pcom-go parser-combinator engine.                          *)
(*                                                                         *)
(* Text is a sequence of one-character strings; Go's 0-based byte offsets  *)
(* are kept, so byte i of an input is input[i + 1].                        *)
(*                                                                         *)
(* Two calling conventions live in the sources and both are modelled:     *)
(*   - parser/parser.go passes the cursor BY VALUE: Run works on a copy   *)
(*     and hands the advanced copy back as Result.NextState;              *)
(*   - parser/primitives.go passes a POINTER to one shared cursor that    *)
(*     Run mutates in place, NextState being that same pointer.           *)
(* A run is summarised by a record                                        *)
(*   [out, Value, NextState, Span, Err, Cur]                              *)
(* where out is "ok", "err", "panic" (the run aborted on an out-of-range  *)
(* index), "loop" (a repetition that can never end) or "deep" (the        *)
(* recursion budget RunDepth was exhausted), and Cur is the caller's      *)
(* cursor once Run has returned.                                          *)
(*                                                                         *)
(* A Value is a sequence of atoms, an atom being a sequence of characters: *)
(* a rune is one atom of one character, a string one atom, a slice of      *)
(* runes one atom per element, a Pair the atom of its left side followed   *)
(* by the atom of its right side, struct{}{} no atom at all.               *)
(***************************************************************************)
EXTENDS Integers, Sequences, FiniteSets, TLC

\* ------------------------------------------------------------------ bounds
\* longest input enumerated exhaustively over Alphabet
MaxLen == 3
\* largest n handed to Consume by the cursor-level action
MaxConsume == 3

Alphabet == {"x", "(", "\r", "\n"}

RECURSIVE StringsUpTo(_)
StringsUpTo(n) ==
  IF n = 0 THEN {<<>>}
  ELSE LET shorter == StringsUpTo(n - 1)
       IN shorter \cup {Append(s, c) : s \in {t \in shorter : Len(t) = n - 1}, c \in Alphabet}

\* inputs taken from the repository's tests and from the specification's examples
ExampleInputs ==
  { <<"(", "x", ")">>, <<"(", "x">>, <<"x", ";">>, <<"a", "b", "c">>,
    <<"a", "a", "a", "b">>, <<"(", "(", "(", "x", ")", ")", ")">>,
    <<"(", "(", "y", ")", ")">>, <<"(", "(", "x", ")", ")", "\n", "(", "(", "x", ")", ")">>,
    <<"5">>, <<"1", "2", "c">>, <<"1", ",", "2">>, <<"1", ",">>,
    <<"1", "+", "2">>, <<"1", "+", "2", "+", "9">>, <<"1", "-", "2", "-", "9">>,
    <<"1", "+">>, <<"+", "2">>, <<"\r", "\n", "x", "\n">>, <<"a", "b", "c", ",", "D">>,
    <<"l", "i", "n", "e", "1", "\r", "\n", "l", "i", "n", "e", "2">>,
    <<"x", " ", "(">>, <<"x", " ", " ", "(">>, <<"x", " ", "\n", "(">>,
    <<"\r", "\n", "x", "\n", "\n">> }

Inputs == StringsUpTo(MaxLen) \cup ExampleInputs

\* ------------------------------------------------------------ cursor layer
NewPositionFromState(s) ==
  [Offset |-> s.Offset, Line |-> s.Line, Column |-> s.Column]

StartPosition == [Offset |-> 0, Line |-> 1, Column |-> 1]

\* the Go zero values of Position, Span and State
ZeroPosition == [Offset |-> 0, Line |-> 0, Column |-> 0]
ZeroSpan == [Start |-> ZeroPosition, End |-> ZeroPosition]
ZeroState == [Input |-> <<>>, Offset |-> 0, Line |-> 0, Column |-> 0, LineStarts |-> <<>>]

\* the loop with a line start recorded after a CR as well
RECURSIVE LineStartsAfterCR(_, _, _)
LineStartsAfterCR(input, i, lineStarts) ==
  IF ~(i < Len(input)) THEN lineStarts
  ELSE IF input[i + 1] = "\r" /\ (i + 1 < Len(input) /\ input[i + 2] = "\n")
         THEN LineStartsAfterCR(input, i + 2, Append(lineStarts, i + 2))
       ELSE IF input[i + 1] = "\n" \/ input[i + 1] = "\r"
         THEN LineStartsAfterCR(input, i + 1, Append(lineStarts, i + 1))
       ELSE LineStartsAfterCR(input, i + 1, lineStarts)

\* the loop of NewState that precomputes LineStarts, from index i on
RECURSIVE LineStartsFrom(_, _, _)
LineStartsFrom(input, i, lineStarts) ==
  IF ~(i < Len(input)) THEN lineStarts
  ELSE IF input[i + 1] = "\r" /\ (i + 1 < Len(input) /\ input[i + 1] = "\n")
         THEN LineStartsFrom(input, i + 2, Append(lineStarts, i + 2))
       ELSE IF input[i + 1] = "\n"
         THEN LineStartsFrom(input, i + 1, Append(lineStarts, i + 1))
       ELSE LineStartsFrom(input, i + 1, lineStarts)

NewState(input, position) ==
  [Input |-> input, Offset |-> position.Offset, Line |-> position.Line,
   Column |-> position.Column,
   LineStarts |-> IF Len(input) = 0 THEN <<>> ELSE LineStartsFrom(input, 0, <<0>>)]

InBounds(s, offset) == offset < Len(s.Input)

isNewLineChar(c) == c = "\r" \/ c = "\n"

\* isCRLF indexes Input[Offset] unguarded: callers must know Offset is in range
isCRLF(s) ==
  s.Input[s.Offset + 1] = "\r" /\ (Len(s.Input) > s.Offset + 1 /\ s.Input[s.Offset + 2] = "\n")

\* a restore that puts back the offset and leaves line and column
UpdateOffsetOnly(s, pos) == [s EXCEPT !.Offset = pos.Offset]

UpdatePosition(s, pos) ==
  [s EXCEPT !.Offset = pos.Offset, !.Column = pos.Column, !.Line = pos.Line]

UpdateOffset(s, n) == [s EXCEPT !.Offset = s.Offset + n]

UpdateColumn(s, n) == UpdateOffset([s EXCEPT !.Column = s.Column + n], n)

\* the first loop of ProgressLine: run forward to the end of the current line
RECURSIVE SkipToLineEnd(_)
SkipToLineEnd(s) ==
  IF InBounds(s, s.Offset) /\ ~isCRLF(s) /\ s.Input[s.Offset + 1] # "\n"
    THEN SkipToLineEnd([s EXCEPT !.Offset = s.Offset + 1])
    ELSE s

\* the tail of ProgressLine: Line and Column after the offset moved to u
NextLine(u) == [s |-> [u EXCEPT !.Line = u.Line + 1, !.Column = 1], panic |-> FALSE]

\* ProgressLine after its loop left the cursor at t; panic is TRUE when the
\* isCRLF test after the loop indexes Input[len(Input)]
AfterSkip(t) ==
  IF ~InBounds(t, t.Offset)
    THEN [s |-> t, panic |-> TRUE]
    ELSE NextLine(IF isCRLF(t) THEN UpdateOffset(t, 2) ELSE UpdateOffset(t, 1))

ProgressLine(s) == AfterSkip(SkipToLineEnd(s))

\* the loop of Consume: consumed counts iterations, end is the read index
RECURSIVE ConsumeLoop(_, _, _, _)
\* one iteration on a newline character, pl being what ProgressLine returned
NewLineStep(pl, n, consumed, end) ==
  IF pl.panic
    THEN [s |-> pl.s, consumed |-> consumed, end |-> end, panic |-> TRUE]
    ELSE ConsumeLoop(pl.s, n, consumed + 1, end + 1)

ConsumeLoop(s, n, consumed, end) ==
  IF consumed < n /\ InBounds(s, end)
    THEN IF isNewLineChar(s.Input[end + 1])
           THEN NewLineStep(ProgressLine(s), n, consumed, end)
           ELSE ConsumeLoop(UpdateColumn(s, 1), n, consumed + 1, end + 1)
    ELSE [s |-> s, consumed |-> consumed, end |-> end, panic |-> FALSE]

\* what Consume returns once its loop has ended in l: text, span and ok as
\* returned, s the cursor afterwards; the slice Input[start:end] aborts when
\* start is beyond len(Input)
ConsumeEnd(s, n, startPos, l) ==
  IF l.panic
    THEN [text |-> <<>>, span |-> ZeroSpan, ok |-> FALSE, s |-> l.s, panic |-> TRUE]
  ELSE IF l.consumed < n
    THEN [text |-> <<>>, span |-> ZeroSpan, ok |-> FALSE,
          s |-> UpdatePosition(l.s, startPos), panic |-> FALSE]
  ELSE IF startPos.Offset > Len(s.Input)
    THEN [text |-> <<>>, span |-> ZeroSpan, ok |-> FALSE, s |-> l.s, panic |-> TRUE]
  ELSE [text |-> SubSeq(s.Input, startPos.Offset + 1, l.end),
        span |-> [Start |-> startPos, End |-> NewPositionFromState(l.s)],
        ok |-> TRUE, s |-> l.s, panic |-> FALSE]

Consume(s, n) ==
  ConsumeEnd(s, n, NewPositionFromState(s), ConsumeLoop(s, n, 0, s.Offset))

\* the search loop that returns lo, the insertion point, where the code
\* returns hi
RECURSIVE SearchLoopReturnsLo(_, _, _)
SearchLoopReturnsLo(s, lo, hi) ==
  IF ~(lo <= hi) THEN lo
  ELSE LET mid == lo + ((hi - lo) \div 2)
       IN IF s.LineStarts[mid + 1] = s.Offset THEN mid
          ELSE IF s.LineStarts[mid + 1] < s.Offset
            THEN SearchLoopReturnsLo(s, mid + 1, hi)
            ELSE SearchLoopReturnsLo(s, lo, mid - 1)

\* the binary search of LineStartBeforeCurrentOffset over LineStarts[lo..hi],
\* indices counted from 0 as in the code
RECURSIVE SearchLoop(_, _, _)
SearchLoop(s, lo, hi) ==
  IF ~(lo <= hi) THEN hi
  ELSE LET mid == lo + ((hi - lo) \div 2)
       IN IF s.LineStarts[mid + 1] = s.Offset THEN mid
          ELSE IF s.LineStarts[mid + 1] < s.Offset
            THEN SearchLoop(s, mid + 1, hi)
            ELSE SearchLoop(s, lo, mid - 1)

LineStartBeforeCurrentOffset(s) == SearchLoop(s, 0, Len(s.LineStarts) - 1)

\* the scan of GetSnippetStringFromCurrentContext for the line's end: the
\* index of the first newline character at or after i, 0 (lineEndOffset as
\* declared) when the loop finds none
RECURSIVE ScanLineEnd(_, _)
ScanLineEnd(s, i) ==
  IF ~(i < Len(s.Input)) THEN 0
  ELSE IF s.Input[i + 1] = "\n" \/ s.Input[i + 1] = "\r" THEN i
  ELSE ScanLineEnd(s, i + 1)

\* strings.TrimRight(str, "\r\n"): drops the trailing run of CR and LF
RECURSIVE TrimRight(_)
TrimRight(str) ==
  IF Len(str) > 0 /\ isNewLineChar(str[Len(str)])
    THEN TrimRight(SubSeq(str, 1, Len(str) - 1))
    ELSE str

\* the slice and trim that end GetSnippetStringFromCurrentContext, the scan
\* having returned lineEndOffset; a slice with end below start aborts
SnippetBetween(s, lineStartOffset, lineEndOffset) ==
  IF lineEndOffset = 0
    THEN TrimRight(SubSeq(s.Input, lineStartOffset + 1, Len(s.Input)))
    ELSE TrimRight(SubSeq(s.Input, lineStartOffset + 1, lineEndOffset))

SnippetOfLine(s, currentLineIndex) ==
  SnippetBetween(s, s.LineStarts[currentLineIndex + 1],
                 ScanLineEnd(s, s.LineStarts[currentLineIndex + 1]))

GetSnippetStringFromCurrentContext(s) ==
  IF Len(s.LineStarts) = 0 THEN s.Input
  ELSE IF LineStartBeforeCurrentOffset(s) < 0 THEN SnippetOfLine(s, 0)
  ELSE SnippetOfLine(s, LineStartBeforeCurrentOffset(s))

\* ------------------------------------------------------- results and errors
\* Error{}: the zero value, whose empty Message means "no error"
NoError == [Message |-> "", Position |-> ZeroPosition, Cause |-> <<>>]

HasError(e) == e.Message # ""

NewError(message, position, cause) ==
  [Message |-> message, Position |-> position, Cause |-> cause]

\* parsers as syntax trees: k the constructor, a its literal argument (a
\* sequence of characters), ps the sub-parsers
Node(k, a, ps) == [k |-> k, a |-> a, ps |-> ps]

PRune(c) == Node("RuneParser", <<c>>, <<>>)
PString(s) == Node("StringParser", s, <<>>)
POr(ps) == Node("Or", <<>>, ps)
PAnd(ps) == Node("And", <<>>, ps)
PMany0(p) == Node("Many0", <<>>, <<p>>)
PMany1(p) == Node("Many1", <<>>, <<p>>)
POptional(p) == Node("Optional", <<>>, <<p>>)
PSequence(ps) == Node("Sequence", <<>>, ps)
PThen(p1, p2) == Node("Then", <<>>, <<p1, p2>>)
PKeepLeft(p) == Node("KeepLeft", <<>>, <<p>>)
PKeepRight(p) == Node("KeepRight", <<>>, <<p>>)
PBetween(open, content, close) == Node("Between", <<>>, <<open, content, close>>)
PLazy(name) == Node("Lazy", <<name>>, <<>>)

\* values of the element types, and their Go zero values
VRune(c) == << <<c>> >>
VString(s) == << s >>
VPair(l, r) == l \o r
PairLeft(v) == << v[1] >>
PairRight(v) == << v[2] >>
ZeroRune == VRune("NUL")
ZeroString == VString(<<>>)
Nil == <<>>
Unit == <<>>

\* the zero value of a parser's element type T, as in Result[T]{}
RECURSIVE ZeroValue(_)
ZeroValue(p) ==
  CASE p.k \in {"RuneParser", "CharWhere", "Digit", "Lazy", "none"} -> ZeroRune
    [] p.k \in {"StringParser", "StringCI", "TakeWhile"} -> ZeroString
    [] p.k \in {"Many0", "Many1", "SeparatedBy", "ManyTill", "ManyTillByValue"} -> Nil
    [] p.k \in {"Not", "NotByValue"} -> Unit
    [] p.k \in {"Chainl1", "Chainr1"} -> << <<>> >>
    [] p.k = "Map" -> IF p.a[1] = "toInt" THEN << <<>> >> ELSE << <<"nil">> >>
    [] p.k = "Then" -> VPair(ZeroValue(p.ps[1]), ZeroValue(p.ps[2]))
    [] p.k = "KeepLeft" -> PairLeft(ZeroValue(p.ps[1]))
    [] p.k = "KeepRight" -> PairRight(ZeroValue(p.ps[1]))
    [] p.k = "Between" -> ZeroValue(p.ps[2])
    [] OTHER -> IF Len(p.ps) = 0 THEN ZeroRune ELSE ZeroValue(p.ps[1])

\* a run that returned (Result, Error{})
Success(value, nextState, span, cur) ==
  [out |-> "ok", Value |-> value, NextState |-> nextState, Span |-> span,
   Err |-> NoError, Cur |-> cur]

\* a run that returned (Result[T]{}, err)
Failure(zero, err, cur) ==
  [out |-> "err", Value |-> zero, NextState |-> ZeroState, Span |-> ZeroSpan,
   Err |-> err, Cur |-> cur]

\* a run that did not return: it aborted ("panic"), cannot end ("loop") or
\* exhausted the recursion budget ("deep")
NoReturn(out, zero, cur) ==
  [out |-> out, Value |-> zero, NextState |-> ZeroState, Span |-> ZeroSpan,
   Err |-> NoError, Cur |-> cur]

Returned(r) == r.out \in {"ok", "err"}

\* --------------------------------------------- parser.go (cursor by value)
RECURSIVE Run(_, _, _)

RuneParser(c, curState) ==
  IF ~InBounds(curState, curState.Offset)
    THEN Failure(ZeroRune,
           NewError("Reached the end of file while parsing",
                    NewPositionFromState(curState), <<>>), curState)
  ELSE IF curState.Input[curState.Offset + 1] = c
    THEN LET prev == NewPositionFromState(curState)
             cn == Consume(curState, 1)
         IN IF cn.panic THEN NoReturn("panic", ZeroRune, curState)
            ELSE Success(VRune(c), cn.s,
                         [Start |-> prev, End |-> NewPositionFromState(cn.s)], curState)
  ELSE Failure(ZeroRune,
         NewError("Failed to parse", NewPositionFromState(curState), <<>>), curState)

StringParser(s, curState) ==
  IF ~InBounds(curState, curState.Offset + Len(s) - 1)
    THEN Failure(ZeroString,
           NewError("Reached the end of file while parsing",
                    NewPositionFromState(curState), <<>>), curState)
  ELSE IF SubSeq(curState.Input, curState.Offset + 1, curState.Offset + Len(s)) # s
    THEN LET t == Consume(curState, Len(s))
         IN IF t.panic THEN NoReturn("panic", ZeroString, curState)
            ELSE Failure(ZeroString,
                   NewError("Strings do not match.",
                            NewPositionFromState(curState), <<>>), curState)
  ELSE LET prev == NewPositionFromState(curState)
           cn == Consume(curState, Len(s))
       IN IF cn.panic THEN NoReturn("panic", ZeroString, curState)
          ELSE Success(VString(s), cn.s,
                       [Start |-> prev, End |-> NewPositionFromState(cn.s)], curState)

\* the loop of Or that tries the next alternative from the position where
\* the previous one failed
RECURSIVE OrLoopFromFailure(_, _, _, _, _, _)
OrLoopFromFailure(parsers, i, curState, lastErr, zero, d) ==
  IF i > Len(parsers)
    THEN Failure(zero,
           NewError("Or combinator failed", lastErr.Position, <<>>), curState)
    ELSE LET res == Run(parsers[i], curState, d)
         IN IF ~Returned(res) THEN NoReturn(res.out, zero, curState)
            ELSE IF ~HasError(res.Err)
              THEN Success(res.Value, res.NextState, res.Span, curState)
            ELSE OrLoopFromFailure(parsers, i + 1,
                                   UpdatePosition(curState, res.Err.Position),
                                   res.Err, zero, d)

\* the loop of Or over parsers[i..]; lastErr is the error of the last failure
RECURSIVE OrLoop(_, _, _, _, _, _)
OrLoop(parsers, i, curState, lastErr, zero, d) ==
  IF i > Len(parsers)
    THEN Failure(zero,
           NewError("Or combinator failed", lastErr.Position, <<>>), curState)
    ELSE LET res == Run(parsers[i], curState, d)
         IN IF ~Returned(res) THEN NoReturn(res.out, zero, curState)
            ELSE IF ~HasError(res.Err)
              THEN Success(res.Value, res.NextState, res.Span, curState)
            ELSE OrLoop(parsers, i + 1, curState, res.Err, zero, d)

\* Or with the alternatives tried last to first
OrLastFirst(parsers, curState, zero, d) ==
  OrLoop([i \in 1..Len(parsers) |-> parsers[Len(parsers) + 1 - i]], 1, curState,
         NoError, zero, d)

Or(parsers, curState, zero, d) == OrLoop(parsers, 1, curState, NoError, zero, d)

\* And that hands each sub-parser the cursor the previous one returned
RECURSIVE AndLoopThreaded(_, _, _, _, _, _)
AndLoopThreaded(parsers, i, curState, lastRes, zero, d) ==
  IF i > Len(parsers)
    THEN Success(lastRes.Value, lastRes.NextState, lastRes.Span, curState)
    ELSE LET res == Run(parsers[i], IF i = 1 THEN curState ELSE lastRes.NextState, d)
         IN IF ~Returned(res) THEN NoReturn(res.out, zero, curState)
            ELSE IF HasError(res.Err)
              THEN Failure(zero,
                     NewError("And combinator failed.", res.Err.Position, <<>>), curState)
            ELSE AndLoopThreaded(parsers, i + 1, curState, res, zero, d)

\* the loop of And over parsers[i..]; lastRes is the result of the last success
RECURSIVE AndLoop(_, _, _, _, _, _)
AndLoop(parsers, i, curState, lastRes, zero, d) ==
  IF i > Len(parsers)
    THEN Success(lastRes.Value, lastRes.NextState, lastRes.Span, curState)
    ELSE LET res == Run(parsers[i], curState, d)
         IN IF ~Returned(res) THEN NoReturn(res.out, zero, curState)
            ELSE IF HasError(res.Err)
              THEN Failure(zero,
                     NewError("And combinator failed.", res.Err.Position, <<>>), curState)
            ELSE AndLoop(parsers, i + 1, curState, res, zero, d)

And(parsers, curState, zero, d) ==
  AndLoop(parsers, 1, curState,
          [Value |-> zero, NextState |-> ZeroState, Span |-> ZeroSpan], zero, d)

\* the loop without curState = res.NextState: p is run again where it was
RECURSIVE ManyLoopStuck(_, _, _, _, _)
ManyLoopStuck(p, curState, results, fuel, d) ==
  LET res == Run(p, curState, d)
  IN IF ~Returned(res) THEN [out |-> res.out, curState |-> curState, results |-> results]
     ELSE IF HasError(res.Err)
       THEN [out |-> "ok", curState |-> curState, results |-> results]
     ELSE IF fuel = 0
       THEN [out |-> "loop", curState |-> curState, results |-> results]
     ELSE ManyLoopStuck(p, curState, results \o res.Value, fuel - 1, d)

\* the loop shared by Many0 and Many1: run p until it fails.  A success that
\* leaves the cursor where it was repeats for ever ("loop"); fuel only bounds
\* the unfolding and is never the reason a loop ends here.
RECURSIVE ManyLoop(_, _, _, _, _)
ManyLoop(p, curState, results, fuel, d) ==
  LET res == Run(p, curState, d)
  IN IF ~Returned(res) THEN [out |-> res.out, curState |-> curState, results |-> results]
     ELSE IF HasError(res.Err)
       THEN [out |-> "ok", curState |-> curState, results |-> results]
     ELSE IF res.NextState = curState \/ fuel = 0
       THEN [out |-> "loop", curState |-> curState, results |-> results]
     ELSE ManyLoop(p, res.NextState, results \o res.Value, fuel - 1, d)

\* Many0 that returns the cursor it was given
Many0NoAdvance(p, curState, d) ==
  LET l == ManyLoop(p, curState, Nil, Len(curState.Input) + 2, d)
  IN IF l.out # "ok" THEN NoReturn(l.out, Nil, curState)
     ELSE Success(l.results, curState,
                  [Start |-> NewPositionFromState(curState),
                   End |-> NewPositionFromState(curState)], curState)

Many0(p, curState, d) ==
  LET originalState == curState
      l == ManyLoop(p, curState, Nil, Len(curState.Input) + 2, d)
  IN IF l.out # "ok" THEN NoReturn(l.out, Nil, curState)
     ELSE Success(l.results, l.curState,
                  [Start |-> NewPositionFromState(originalState),
                   End |-> NewPositionFromState(l.curState)], curState)

\* Many1 that accepts zero successes
Many1AcceptsZero(p, curState, d) ==
  LET l == ManyLoop(p, curState, Nil, Len(curState.Input) + 2, d)
  IN IF l.out # "ok" THEN NoReturn(l.out, Nil, curState)
     ELSE Success(l.results, l.curState,
                  [Start |-> NewPositionFromState(curState),
                   End |-> NewPositionFromState(l.curState)], curState)

Many1(p, curState, d) ==
  LET originalState == curState
      l == ManyLoop(p, curState, Nil, Len(curState.Input) + 2, d)
  IN IF l.out # "ok" THEN NoReturn(l.out, Nil, curState)
     ELSE IF Len(l.results) > 0
       THEN Success(l.results, l.curState,
                    [Start |-> NewPositionFromState(originalState),
                     End |-> NewPositionFromState(l.curState)], curState)
     ELSE Failure(Nil,
            NewError("Many1 parser failed.", NewPositionFromState(l.curState), <<>>),
            curState)

\* Optional that hands on p's error instead of the empty Error
OptionalReturnsError(p, curState, zero, d) ==
  LET res == Run(p, curState, d)
  IN IF ~Returned(res) THEN NoReturn(res.out, zero, curState)
     ELSE IF HasError(res.Err)
       THEN Failure(zero, res.Err, curState)
     ELSE Success(res.Value, res.NextState, res.Span, curState)

Optional(p, curState, zero, d) ==
  LET res == Run(p, curState, d)
  IN IF ~Returned(res) THEN NoReturn(res.out, zero, curState)
     ELSE IF HasError(res.Err)
       THEN Success(zero, ZeroState, ZeroSpan, curState)
     ELSE Success(res.Value, res.NextState, res.Span, curState)

\* the loop of Sequence over parsers[i..]; ret is the result of the last success
RECURSIVE SequenceLoop(_, _, _, _, _, _)
SequenceLoop(parsers, i, curState, ret, zero, d) ==
  IF i > Len(parsers)
    THEN Success(ret.Value, ret.NextState, ret.Span, curState)
    ELSE LET res == Run(parsers[i], curState, d)
         IN IF ~Returned(res) THEN NoReturn(res.out, zero, curState)
            ELSE IF HasError(res.Err)
              THEN Failure(zero,
                     NewError("Sequence parser failed.",
                              NewPositionFromState(curState), <<>>), curState)
            ELSE SequenceLoop(parsers, i + 1, curState, res, zero, d)

Sequence(parsers, curState, zero, d) ==
  SequenceLoop(parsers, 1, curState,
               [Value |-> zero, NextState |-> ZeroState, Span |-> ZeroSpan], zero, d)

\* Then that fails only when p1 fails and otherwise reports p1's result twice
ThenIgnoresRight(p1, p2, curState, zero, d) ==
  LET leftRes == Run(p1, curState, d)
  IN IF ~Returned(leftRes) THEN NoReturn(leftRes.out, zero, curState)
     ELSE IF HasError(leftRes.Err)
       THEN Failure(zero,
              NewError("Left of Then failed", leftRes.Err.Position, <<>>), curState)
     ELSE LET rightRes == Run(p2, leftRes.NextState, d)
          IN IF ~Returned(rightRes) THEN NoReturn(rightRes.out, zero, curState)
             ELSE IF HasError(rightRes.Err)
               THEN Success(VPair(leftRes.Value, PairRight(zero)),
                            leftRes.NextState,
                            [Start |-> NewPositionFromState(curState),
                             End |-> NewPositionFromState(leftRes.NextState)], curState)
             ELSE Success(VPair(leftRes.Value, rightRes.Value),
                          rightRes.NextState,
                          [Start |-> NewPositionFromState(curState),
                           End |-> NewPositionFromState(rightRes.NextState)], curState)

Then(p1, p2, curState, zero, d) ==
  LET leftRes == Run(p1, curState, d)
  IN IF ~Returned(leftRes) THEN NoReturn(leftRes.out, zero, curState)
     ELSE IF HasError(leftRes.Err)
       THEN Failure(zero,
              NewError("Left of Then failed", leftRes.Err.Position, <<>>), curState)
     ELSE LET rightRes == Run(p2, leftRes.NextState, d)
          IN IF ~Returned(rightRes) THEN NoReturn(rightRes.out, zero, curState)
             ELSE IF HasError(rightRes.Err)
               THEN Failure(zero,
                      NewError("Right of Then failed", rightRes.Err.Position, <<>>),
                      curState)
             ELSE Success(VPair(leftRes.Value, rightRes.Value),
                          rightRes.NextState,
                          [Start |-> NewPositionFromState(curState),
                           End |-> NewPositionFromState(rightRes.NextState)], curState)

KeepLeft(p, curState, zero, d) ==
  LET res == Run(p, curState, d)
  IN IF ~Returned(res) THEN NoReturn(res.out, zero, curState)
     ELSE IF HasError(res.Err)
       THEN Failure(zero, NewError("KeepLeft failed.", res.Err.Position, <<>>), curState)
     ELSE Success(PairLeft(res.Value), res.NextState, res.Span, curState)

KeepRight(p, curState, zero, d) ==
  LET res == Run(p, curState, d)
  IN IF ~Returned(res) THEN NoReturn(res.out, zero, curState)
     ELSE IF HasError(res.Err)
       THEN Failure(zero, NewError("KeepRight failed.", res.Err.Position, <<>>), curState)
     ELSE Success(PairRight(res.Value), res.NextState, res.Span, curState)

\* Between with the two projections exchanged: it keeps close's value
BetweenKeepsClose(open, content, close, curState, zero, d) ==
  LET left == PKeepRight(PThen(content, close))
      right == PKeepRight(PThen(open, left))
      res == Run(right, curState, d)
  IN IF ~Returned(res) THEN NoReturn(res.out, zero, curState)
     ELSE IF HasError(res.Err)
       THEN Failure(zero,
              NewError("Between combinator failed.", res.Err.Position, <<>>), curState)
     ELSE Success(res.Value, res.NextState, res.Span, curState)

Between(open, content, close, curState, zero, d) ==
  LET left == PKeepLeft(PThen(content, close))
      right == PKeepRight(PThen(open, left))
      res == Run(right, curState, d)
  IN IF ~Returned(res) THEN NoReturn(res.out, zero, curState)
     ELSE IF HasError(res.Err)
       THEN Failure(zero,
              NewError("Between combinator failed.", res.Err.Position, <<>>), curState)
     ELSE Success(res.Value, res.NextState, res.Span, curState)

\* ---------------------------------- Map, Digit and the chain combinators
PMap(f, p) == Node("Map", <<f>>, <<p>>)
PDigit == Node("Digit", <<>>, <<>>)
PChainl1(p, op) == Node("Chainl1", <<>>, <<p, op>>)
PChainr1(p, op) == Node("Chainr1", <<>>, <<p, op>>)

\* an int value: one atom of |n| signs, so that every Value has one shape
VInt(n) ==
  IF n = 0 THEN << <<>> >>
  ELSE << [i \in 1..(IF n < 0 THEN -n ELSE n) |-> IF n < 0 THEN "-" ELSE "+"] >>

IntOf(v) == IF v[1] = <<>> THEN 0
            ELSE IF v[1][1] = "-" THEN -Len(v[1]) ELSE Len(v[1])

\* a func(a, b int) int value, by the name of the closure
VFunc(name) == << <<name>> >>

\* the call fn(a, b) of a combining function
Apply(fn, a, b) ==
  IF fn = VFunc("add") THEN VInt(IntOf(a) + IntOf(b)) ELSE VInt(IntOf(a) - IntOf(b))

\* int(r - '0')
DigitValue(r) == CHOOSE n \in 0..9 : ToString(n) = r

\* the functions handed to Map, by name: TestChainl1's digit conversion and
\* its operator closures
MapFn(f, v) ==
  CASE f = "toInt" -> VInt(DigitValue(v[1][1]))
    [] f = "add" -> VFunc("add")
    [] f = "sub" -> VFunc("sub")

\* the predicates handed to CharWhere and TakeWhile, by name
Predicate(name, r) ==
  CASE name = "Digit" -> r \in {"0", "1", "2", "3", "4", "5", "6", "7", "8", "9"}
    [] name = "Alpha" -> r \in {"a", "b", "c", "x", "y", "A", "B", "C", "D", "X", "Y"}
    [] name = "Comma" -> r = ","
    [] name = "Any" -> TRUE

\* CharWhere of parser.go that consumes nothing: NextState is curState
CharWhereByValueNoConsume(name, curState) ==
  IF ~InBounds(curState, curState.Offset)
    THEN Failure(ZeroRune,
           NewError("Char parser with predicate failed.",
                    NewPositionFromState(curState), <<>>), curState)
  ELSE IF Predicate(name, curState.Input[curState.Offset + 1])
    THEN Success(VRune(curState.Input[curState.Offset + 1]), curState,
                 [Start |-> NewPositionFromState(curState),
                  End |-> NewPositionFromState(curState)], curState)
  ELSE Failure(ZeroRune,
         NewError("Char parser with predicate failed.",
                  NewPositionFromState(curState), <<>>), curState)

\* Map that reports the cursor it was given as the next cursor
MapKeepsCursor(f, p1, curState, zero, d) ==
  LET res == Run(p1, curState, d)
  IN IF ~Returned(res) THEN NoReturn(res.out, zero, curState)
     ELSE IF HasError(res.Err)
       THEN Failure(zero, NewError("Map parser failed", res.Err.Position, <<>>), curState)
     ELSE Success(MapFn(f, res.Value), curState,
                  [Start |-> NewPositionFromState(curState),
                   End |-> NewPositionFromState(curState)], curState)

Map(f, p1, curState, zero, d) ==
  LET res == Run(p1, curState, d)
  IN IF ~Returned(res) THEN NoReturn(res.out, zero, curState)
     ELSE IF HasError(res.Err)
       THEN Failure(zero, NewError("Map parser failed", res.Err.Position, <<>>), curState)
     ELSE Success(MapFn(f, res.Value), res.NextState,
                  [Start |-> NewPositionFromState(curState),
                   End |-> NewPositionFromState(res.NextState)], curState)

\* CharWhere that, out of input, succeeds with '0' where it is
CharWhereByValueAtEnd(name, curState) ==
  IF ~InBounds(curState, curState.Offset)
    THEN Success(VRune("0"), curState,
                 [Start |-> NewPositionFromState(curState),
                  End |-> NewPositionFromState(curState)], curState)
  ELSE IF Predicate(name, curState.Input[curState.Offset + 1])
    THEN LET cn == Consume(curState, 1)
         IN IF cn.panic THEN NoReturn("panic", ZeroRune, curState)
            ELSE Success(VRune(curState.Input[curState.Offset + 1]), cn.s,
                         [Start |-> NewPositionFromState(curState),
                          End |-> NewPositionFromState(cn.s)], curState)
  ELSE Failure(ZeroRune,
         NewError("Char parser with predicate failed.",
                  NewPositionFromState(curState), <<>>), curState)

\* CharWhere of parser.go: the cursor is a copy, newState := curState is
\* consumed and returned as NextState
CharWhereByValue(name, curState) ==
  IF ~InBounds(curState, curState.Offset)
    THEN Failure(ZeroRune,
           NewError("Char parser with predicate failed.",
                    NewPositionFromState(curState), <<>>), curState)
  ELSE IF Predicate(name, curState.Input[curState.Offset + 1])
    THEN LET cn == Consume(curState, 1)
         IN IF cn.panic THEN NoReturn("panic", ZeroRune, curState)
            ELSE Success(VRune(curState.Input[curState.Offset + 1]), cn.s,
                         [Start |-> NewPositionFromState(curState),
                          End |-> NewPositionFromState(cn.s)], curState)
  ELSE Failure(ZeroRune,
         NewError("Char parser with predicate failed.",
                  NewPositionFromState(curState), <<>>), curState)

Digit(curState) == CharWhereByValue("Digit", curState)

\* the loop of Chainl1 after the first operand: acc = opFn(acc, next) for
\* every (op, p) pair; the chain ends where op fails, and an op with no
\* operand after it fails the chain
RECURSIVE Chainl1Loop(_, _, _, _, _, _, _)
Chainl1Loop(p, op, cur, acc, curState, fuel, d) ==
  LET opRes == Run(op, cur, d)
  IN IF ~Returned(opRes) THEN NoReturn(opRes.out, VInt(0), curState)
     ELSE IF HasError(opRes.Err)
       THEN Success(acc, cur,
                    [Start |-> NewPositionFromState(curState),
                     End |-> NewPositionFromState(cur)], curState)
     ELSE LET next == Run(p, opRes.NextState, d)
          IN IF ~Returned(next) THEN NoReturn(next.out, VInt(0), curState)
             ELSE IF HasError(next.Err)
               THEN Failure(VInt(0),
                      NewError("Chainl1 failed.", next.Err.Position, <<next.Err>>),
                      curState)
             ELSE IF next.NextState = cur \/ fuel = 0
               THEN NoReturn("loop", VInt(0), curState)
             ELSE Chainl1Loop(p, op, next.NextState,
                              Apply(opRes.Value, acc, next.Value), curState, fuel - 1, d)

Chainl1(p, op, curState, d) ==
  LET first == Run(p, curState, d)
  IN IF ~Returned(first) THEN NoReturn(first.out, VInt(0), curState)
     ELSE IF HasError(first.Err)
       THEN Failure(VInt(0),
              NewError("Chainl1 failed.", first.Err.Position, <<first.Err>>), curState)
     ELSE Chainl1Loop(p, op, first.NextState, first.Value, curState,
                      Len(curState.Input) + 2, d)

\* operands[1] ops[1] (operands[2] ops[2] (... operands[n]))
RECURSIVE FoldRight(_, _)
FoldRight(operands, ops) ==
  IF Len(operands) = 1 THEN operands
  ELSE Apply(<<ops[1]>>, <<operands[1]>>, FoldRight(Tail(operands), Tail(ops)))

\* the loop of Chainr1 after the first operand: it collects the operands and
\* the operators and folds them from the right when op fails
RECURSIVE Chainr1Loop(_, _, _, _, _, _, _, _)
Chainr1Loop(p, op, cur, operands, ops, curState, fuel, d) ==
  LET opRes == Run(op, cur, d)
  IN IF ~Returned(opRes) THEN NoReturn(opRes.out, VInt(0), curState)
     ELSE IF HasError(opRes.Err)
       THEN Success(FoldRight(operands, ops), cur,
                    [Start |-> NewPositionFromState(curState),
                     End |-> NewPositionFromState(cur)], curState)
     ELSE LET next == Run(p, opRes.NextState, d)
          IN IF ~Returned(next) THEN NoReturn(next.out, VInt(0), curState)
             ELSE IF HasError(next.Err)
               THEN Failure(VInt(0),
                      NewError("Chainr1 failed.", next.Err.Position, <<next.Err>>),
                      curState)
             ELSE IF next.NextState = cur \/ fuel = 0
               THEN NoReturn("loop", VInt(0), curState)
             ELSE Chainr1Loop(p, op, next.NextState, operands \o next.Value,
                              ops \o opRes.Value, curState, fuel - 1, d)

Chainr1(p, op, curState, d) ==
  LET first == Run(p, curState, d)
  IN IF ~Returned(first) THEN NoReturn(first.out, VInt(0), curState)
     ELSE IF HasError(first.Err)
       THEN Failure(VInt(0),
              NewError("Chainr1 failed.", first.Err.Position, <<first.Err>>), curState)
     ELSE Chainr1Loop(p, op, first.NextState, first.Value, <<>>, curState,
                      Len(curState.Input) + 2, d)

\* ---------------------------------- primitives.go (one cursor, by pointer)
\* Every Run below receives the pointer to the caller's cursor: what a
\* sub-parser did to the cursor is its Cur, and a NextState it returns is that
\* same cursor.
PCharWhere(name) == Node("CharWhere", <<name>>, <<>>)
PStringCI(s) == Node("StringCI", s, <<>>)
PTry(p) == Node("Try", <<>>, <<p>>)
PTakeWhile(name) == Node("TakeWhile", <<name>>, <<>>)
PSeparatedBy(p, delimiter) == Node("SeparatedBy", <<>>, <<p, delimiter>>)
PManyTill(p, end) == Node("ManyTill", <<>>, <<p, end>>)
PNot(p) == Node("Not", <<>>, <<p>>)
PNotByValue(p) == Node("NotByValue", <<>>, <<p>>)
PTryByValue(p) == Node("TryByValue", <<>>, <<p>>)

\* lower-casing, over the characters the inputs use
ToLowerChar(c) ==
  CASE c = "A" -> "a" [] c = "B" -> "b" [] c = "C" -> "c" [] c = "X" -> "x"
    [] c = "Y" -> "y" [] OTHER -> c

ToLower(s) == [i \in 1..Len(s) |-> ToLowerChar(s[i])]

\* State.Save and State.Rollback: capture and restore offset, line and column
Save(s) == NewPositionFromState(s)

Rollback(s, cp) == [s EXCEPT !.Offset = cp.Offset, !.Line = cp.Line, !.Column = cp.Column]

\* every character of the inputs is one byte, so DecodeRuneInString yields
\* the byte at Offset with size 1
CharWhere(name, curState) ==
  IF ~InBounds(curState, curState.Offset)
    THEN Failure(ZeroRune,
           NewError("Char parser with predicate failed.",
                    NewPositionFromState(curState), <<>>), curState)
  ELSE LET cp == Save(curState)
           r == curState.Input[curState.Offset + 1]
           size == 1
       IN IF Predicate(name, r)
            THEN LET cn == Consume(curState, size)
                 IN IF cn.panic THEN NoReturn("panic", ZeroRune, cn.s)
                    ELSE Success(VRune(r), cn.s, [Start |-> cp, End |-> Save(cn.s)], cn.s)
            ELSE LET rolled == Rollback(curState, cp)
                 IN Failure(ZeroRune,
                      NewError("Char parser with predicate failed.",
                               NewPositionFromState(rolled), <<>>), rolled)

StringCI(s, curState) ==
  LET lower == ToLower(s)
  IN IF ~InBounds(curState, curState.Offset + Len(lower) - 1)
       THEN Failure(ZeroString,
              NewError("Reached the end of file while parsing",
                       NewPositionFromState(curState), <<>>), curState)
     ELSE LET cp == Save(curState)
              got == SubSeq(curState.Input, curState.Offset + 1, curState.Offset + Len(lower))
          IN IF ToLower(got) # lower
               THEN Failure(ZeroString,
                      NewError("Strings do not match (case-insensitive).",
                               NewPositionFromState(curState), <<>>), curState)
               ELSE LET cn == Consume(curState, Len(lower))
                    IN IF cn.panic THEN NoReturn("panic", ZeroString, cn.s)
                       ELSE Success(VString(got), cn.s, [Start |-> cp, End |-> Save(cn.s)], cn.s)

\* Try that returns where p's failed run left the cursor
TryNoRollback(p, curState, zero, d) ==
  LET res == Run(p, curState, d)
  IN IF ~Returned(res) THEN NoReturn(res.out, zero, res.Cur)
     ELSE IF HasError(res.Err)
       THEN Success(zero, res.Cur, ZeroSpan, res.Cur)
     ELSE Success(res.Value, res.NextState, res.Span, res.Cur)

Try(p, curState, zero, d) ==
  LET cp == Save(curState)
      res == Run(p, curState, d)
  IN IF ~Returned(res) THEN NoReturn(res.out, zero, res.Cur)
     ELSE IF HasError(res.Err)
       THEN LET rolled == Rollback(res.Cur, cp)
            IN Success(zero, rolled, ZeroSpan, rolled)
     ELSE Success(res.Value, res.NextState, res.Span, res.Cur)

\* the loop of TakeWhile; Consume(1) is used for its effect on the cursor
RECURSIVE TakeWhileLoop(_, _, _)
TakeWhileLoop(name, curState, ret) ==
  IF InBounds(curState, curState.Offset) /\ Predicate(name, curState.Input[curState.Offset + 1])
    THEN LET cn == Consume(curState, 1)
         IN IF cn.panic THEN [panic |-> TRUE, curState |-> cn.s, ret |-> ret]
            ELSE TakeWhileLoop(name, cn.s, ret \o cn.text)
    ELSE [panic |-> FALSE, curState |-> curState, ret |-> ret]

TakeWhile(name, curState) ==
  LET cp == Save(curState)
      l == TakeWhileLoop(name, curState, <<>>)
  IN IF l.panic THEN NoReturn("panic", ZeroString, l.curState)
     ELSE Success(VString(l.ret), l.curState,
                  [Start |-> cp, End |-> NewPositionFromState(l.curState)], l.curState)

\* the loop of SeparatedBy after the first element
RECURSIVE SeparatedByLoop(_, _, _, _, _, _, _)
SeparatedByLoop(p, delimiter, curState, ret, cp, fuel, d) ==
  LET del == Run(delimiter, curState, d)
  IN IF ~Returned(del) THEN NoReturn(del.out, Nil, del.Cur)
     ELSE IF HasError(del.Err)
       THEN Success(ret, del.Cur,
                    [Start |-> cp, End |-> NewPositionFromState(del.Cur)], del.Cur)
     ELSE LET res == Run(p, del.Cur, d)
          IN IF ~Returned(res) THEN NoReturn(res.out, Nil, res.Cur)
             ELSE IF HasError(res.Err)
               THEN Failure(Nil,
                      NewError("SeparatedBy failed after delimiter.",
                               res.Err.Position, <<res.Err>>),
                      Rollback(res.Cur, cp))
             ELSE IF res.Cur = curState \/ fuel = 0
               THEN NoReturn("loop", Nil, res.Cur)
             ELSE SeparatedByLoop(p, delimiter, res.Cur, ret \o res.Value,
                                  cp, fuel - 1, d)

SeparatedBy(p, delimiter, curState, d) ==
  LET cp == NewPositionFromState(curState)
      first == Run(p, curState, d)
  IN IF ~Returned(first) THEN NoReturn(first.out, Nil, first.Cur)
     ELSE IF HasError(first.Err)
       THEN Failure(Nil,
              NewError("SeparatedBy failed.", first.Err.Position, <<first.Err>>),
              Rollback(first.Cur, cp))
     ELSE SeparatedByLoop(p, delimiter, first.Cur, first.Value, cp,
                          Len(curState.Input) + 2, d)

\* the loop of ManyTill without the rollback after end matched: the cursor
\* stays where end's match ended
RECURSIVE ManyTillLoopKeepsEnd(_, _, _, _, _, _, _)
ManyTillLoopKeepsEnd(p, end, curState, ret, initialPos, fuel, d) ==
  IF ~InBounds(curState, curState.Offset)
    THEN Success(ret, curState,
                 [Start |-> initialPos, End |-> NewPositionFromState(curState)], curState)
    ELSE LET cp == Save(curState)
             probe == Run(end, curState, d)
         IN IF ~Returned(probe) THEN NoReturn(probe.out, Nil, probe.Cur)
            ELSE IF ~HasError(probe.Err)
              THEN Success(ret, probe.Cur,
                           [Start |-> cp, End |-> NewPositionFromState(probe.Cur)],
                           probe.Cur)
            ELSE LET res == Run(p, probe.Cur, d)
                 IN IF ~Returned(res) THEN NoReturn(res.out, Nil, res.Cur)
                    ELSE IF HasError(res.Err)
                      THEN Failure(Nil,
                             NewError("ManyTill parser failed.",
                                      res.Err.Position, <<res.Err>>),
                             Rollback(res.Cur, cp))
                    ELSE IF res.Cur = curState \/ fuel = 0
                      THEN NoReturn("loop", Nil, res.Cur)
                    ELSE ManyTillLoopKeepsEnd(p, end, res.Cur, ret \o res.Value,
                                              initialPos, fuel - 1, d)

\* the loop of ManyTill
RECURSIVE ManyTillLoop(_, _, _, _, _, _, _)
ManyTillLoop(p, end, curState, ret, initialPos, fuel, d) ==
  IF ~InBounds(curState, curState.Offset)
    THEN Success(ret, curState,
                 [Start |-> initialPos, End |-> NewPositionFromState(curState)], curState)
    ELSE LET cp == Save(curState)
             probe == Run(end, curState, d)
         IN IF ~Returned(probe) THEN NoReturn(probe.out, Nil, probe.Cur)
            ELSE IF ~HasError(probe.Err)
              THEN LET rolled == Rollback(probe.Cur, cp)
                   IN Success(ret, rolled,
                              [Start |-> cp, End |-> NewPositionFromState(rolled)], rolled)
            ELSE LET res == Run(p, probe.Cur, d)
                 IN IF ~Returned(res) THEN NoReturn(res.out, Nil, res.Cur)
                    ELSE IF HasError(res.Err)
                      THEN Failure(Nil,
                             NewError("ManyTill parser failed.",
                                      res.Err.Position, <<res.Err>>),
                             Rollback(res.Cur, cp))
                    ELSE IF res.Cur = curState \/ fuel = 0
                      THEN NoReturn("loop", Nil, res.Cur)
                    ELSE ManyTillLoop(p, end, res.Cur, ret \o res.Value,
                                      initialPos, fuel - 1, d)

ManyTill(p, end, curState, d) ==
  ManyTillLoop(p, end, curState, Nil, NewPositionFromState(curState),
               Len(curState.Input) + 2, d)

Not(p, curState, d) ==
  LET res == Run(p, curState, d)
      cp == Save(res.Cur)
  IN IF ~Returned(res) THEN NoReturn(res.out, Unit, res.Cur)
     ELSE IF HasError(res.Err)
       THEN LET rolled == Rollback(res.Cur, cp)
            IN Success(Unit, rolled, [Start |-> cp, End |-> cp], rolled)
     ELSE Failure(Unit,
            NewError("Unexpected match in not.", NewPositionFromState(res.Cur), <<>>),
            res.Cur)

\* Whitespace(): RuneParser("whitespace", ' ')
Whitespace(curState) == RuneParser(" ", curState)

\* the tail of Lexeme of parser.go after p returned res without error, r
\* being what Whitespace() returned on res.NextState
LexemeSkip(res, r, curState) ==
  IF r.out = "panic" THEN NoReturn("panic", res.Value, curState)
  ELSE IF ~HasError(r.Err)
    THEN Success(res.Value, r.NextState,
                 [Start |-> res.Span.Start, End |-> r.Span.End], curState)
  ELSE Success(res.Value, res.NextState, res.Span, curState)

\* Lexeme of parser.go: on p's failure p's own result and error are returned
Lexeme(p, curState, d) ==
  LET res == Run(p, curState, d)
  IN IF ~Returned(res) THEN NoReturn(res.out, res.Value, curState)
     ELSE IF HasError(res.Err) THEN Failure(res.Value, res.Err, curState)
     ELSE LexemeSkip(res, Whitespace(res.NextState), curState)

PLexeme(p) == Node("Lexeme", <<>>, <<p>>)

\* the loop of ManyTill of parser.go: end and p run on copies of curState,
\* which moves on by assignment from p's NextState
RECURSIVE ManyTillByValueLoop(_, _, _, _, _, _, _)
ManyTillByValueLoop(p, end, curState, ret, initialPos, fuel, d) ==
  IF ~InBounds(curState, curState.Offset)
    THEN [out |-> "ok", Value |-> ret, NextState |-> curState,
          Span |-> [Start |-> initialPos, End |-> NewPositionFromState(curState)]]
    ELSE LET probe == Run(end, curState, d)
         IN IF ~Returned(probe) THEN [out |-> probe.out]
            ELSE IF ~HasError(probe.Err)
              THEN [out |-> "ok", Value |-> ret, NextState |-> curState,
                    Span |-> [Start |-> initialPos, End |-> NewPositionFromState(curState)]]
            ELSE LET res == Run(p, curState, d)
                 IN IF ~Returned(res) THEN [out |-> res.out]
                    ELSE IF HasError(res.Err)
                      THEN [out |-> "err",
                            Err |-> NewError("ManyTill parser failed.",
                                             res.Err.Position, <<res.Err>>)]
                    ELSE IF res.NextState = curState \/ fuel = 0
                      THEN [out |-> "loop"]
                    ELSE ManyTillByValueLoop(p, end, res.NextState, ret \o res.Value,
                                             initialPos, fuel - 1, d)

\* ManyTill that fails for the missing terminator when its loop ran out of
\* input
ManyTillByValueNeedsEnd(l, curState) ==
  IF l.out = "ok" /\ InBounds(l.NextState, l.NextState.Offset)
    THEN Success(l.Value, l.NextState, l.Span, curState)
  ELSE IF l.out = "ok"
    THEN Failure(Nil, NewError("ManyTill parser failed.", l.Span.End, <<>>), curState)
  ELSE IF l.out = "err" THEN Failure(Nil, l.Err, curState)
  ELSE NoReturn(l.out, Nil, curState)

\* what the caller of ManyTill of parser.go gets, l being how its loop
\* ended: the caller's own cursor is a copy the run never touches
ManyTillByValueReturn(l, curState) ==
  IF l.out = "ok" THEN Success(l.Value, l.NextState, l.Span, curState)
  ELSE IF l.out = "err" THEN Failure(Nil, l.Err, curState)
  ELSE NoReturn(l.out, Nil, curState)

ManyTillByValue(p, end, curState, d) ==
  ManyTillByValueReturn(
    ManyTillByValueLoop(p, end, curState, Nil, NewPositionFromState(curState),
                        Len(curState.Input) + 2, d),
    curState)

PManyTillByValue(p, end) == Node("ManyTillByValue", <<>>, <<p, end>>)

\* Try of parser.go: prevState is a copy of the cursor p ran on
TryByValue(p, curState, zero, d) ==
  LET prevState == curState
      res == Run(p, curState, d)
  IN IF ~Returned(res) THEN NoReturn(res.out, zero, curState)
     ELSE IF HasError(res.Err)
       THEN Success(zero, prevState, ZeroSpan, curState)
     ELSE Success(res.Value, res.NextState, res.Span, curState)

\* Not of parser.go: the cursor is a copy, so p's run leaves curState alone
NotByValue(p, curState, d) ==
  LET res == Run(p, curState, d)
      initialPos == NewPositionFromState(curState)
  IN IF ~Returned(res) THEN NoReturn(res.out, Unit, curState)
     ELSE IF HasError(res.Err)
       THEN Success(Unit, curState, [Start |-> initialPos, End |-> initialPos], curState)
     ELSE Failure(Unit,
            NewError("Unexpected match in not.", NewPositionFromState(curState), <<>>),
            curState)

\* the factory of the recursive grammar of TestLazyRecursive:
\* parens := 'x' | '(' parens ')'
ParensFactory ==
  POr(<<PRune("x"), PBetween(PRune("("), PLazy("parens"), PRune(")"))>>)

\* Lazy that runs the parser it built on a zero cursor instead of curState
LazyDropsCursor(f, curState, d) ==
  LET r == Run(f, ZeroState, d)
  IN [r EXCEPT !.Cur = curState]

\* Lazy: the first Run stores f() in memo, every Run then runs memo; f is
\* pure, so the parser run is f()'s value whether or not memo was set
Lazy(f, curState, d) == Run(f, curState, d)

Run(p, curState, d) ==
  IF d = 0 THEN NoReturn("deep", ZeroValue(p), curState)
  ELSE CASE p.k = "RuneParser" -> RuneParser(p.a[1], curState)
         [] p.k = "StringParser" -> StringParser(p.a, curState)
         [] p.k = "Or" -> Or(p.ps, curState, ZeroValue(p), d - 1)
         [] p.k = "And" -> And(p.ps, curState, ZeroValue(p), d - 1)
         [] p.k = "Many0" -> Many0(p.ps[1], curState, d - 1)
         [] p.k = "Many1" -> Many1(p.ps[1], curState, d - 1)
         [] p.k = "Optional" -> Optional(p.ps[1], curState, ZeroValue(p), d - 1)
         [] p.k = "Sequence" -> Sequence(p.ps, curState, ZeroValue(p), d - 1)
         [] p.k = "Then" -> Then(p.ps[1], p.ps[2], curState, ZeroValue(p), d - 1)
         [] p.k = "KeepLeft" -> KeepLeft(p.ps[1], curState, ZeroValue(p), d - 1)
         [] p.k = "KeepRight" -> KeepRight(p.ps[1], curState, ZeroValue(p), d - 1)
         [] p.k = "Between" ->
              Between(p.ps[1], p.ps[2], p.ps[3], curState, ZeroValue(p), d - 1)
         [] p.k = "Lazy" -> Lazy(ParensFactory, curState, d - 1)
         [] p.k = "Map" -> Map(p.a[1], p.ps[1], curState, ZeroValue(p), d - 1)
         [] p.k = "Digit" -> Digit(curState)
         [] p.k = "Chainl1" -> Chainl1(p.ps[1], p.ps[2], curState, d - 1)
         [] p.k = "Chainr1" -> Chainr1(p.ps[1], p.ps[2], curState, d - 1)
         [] p.k = "CharWhere" -> CharWhere(p.a[1], curState)
         [] p.k = "StringCI" -> StringCI(p.a, curState)
         [] p.k = "Try" -> Try(p.ps[1], curState, ZeroValue(p), d - 1)
         [] p.k = "TakeWhile" -> TakeWhile(p.a[1], curState)
         [] p.k = "SeparatedBy" -> SeparatedBy(p.ps[1], p.ps[2], curState, d - 1)
         [] p.k = "ManyTill" -> ManyTill(p.ps[1], p.ps[2], curState, d - 1)
         [] p.k = "Not" -> Not(p.ps[1], curState, d - 1)
         [] p.k = "NotByValue" -> NotByValue(p.ps[1], curState, d - 1)
         [] p.k = "Lexeme" -> Lexeme(p.ps[1], curState, d - 1)
         [] p.k = "ManyTillByValue" -> ManyTillByValue(p.ps[1], p.ps[2], curState, d - 1)
         [] p.k = "TryByValue" -> TryByValue(p.ps[1], curState, ZeroValue(p), d - 1)

\* ------------------------------------------------------------ the machine
\* the longest input, and a recursion budget no run of the parsers below
\* comes near: the deepest grammar (ParensFactory) nests seven combinators
\* per character consumed
MaxInputLen == CHOOSE n \in 0..32 :
  /\ \E i \in Inputs : Len(i) = n
  /\ \A i \in Inputs : Len(i) <= n

RunDepth == 8 * (MaxInputLen + 2)

\* characters given to RuneParser
LeafChars == {"x", "(", ")", ";", "\n", "\r"}

RuneLeaves == {PRune(c) : c \in LeafChars}

SmallLeaves == {PRune("x"), PRune("("), PRune("\r")}

\* rune parsers that consume through sub-parsers before they fail or succeed
NestedRune ==
  { PKeepLeft(PThen(PRune("("), PRune("x"))),
    PBetween(PRune("("), PRune("x"), PRune(")")),
    POr(<<PRune("x"), PRune("(")>>),
    POptional(PRune("x")),
    PSequence(<<PRune("("), PRune("x")>>),
    PLazy("parens") }

RunePool == RuneLeaves \cup NestedRune

Literals == { <<"x">>, <<"(", "x">>, <<"x", "\n">>, <<"\r", "\n">> }

PtrLeaves == {PCharWhere(n) : n \in {"Digit", "Alpha", "Comma", "Any"}}

PtrPool ==
  PtrLeaves \cup
  { PNot(PCharWhere("Digit")), PTry(PCharWhere("Digit")),
    PManyTill(PCharWhere("Digit"), PCharWhere("Comma")),
    PSeparatedBy(PCharWhere("Digit"), PCharWhere("Comma")) }

\* the operand and the operator parsers of TestChainl1 and TestChainr1, and
\* an operator parser that yields one of two closures
IntOperand == PMap("toInt", PDigit)

AddOp == PMap("add", PRune("+"))

SubOp == PMap("sub", PRune("-"))

ChainOps == {AddOp, POr(<<AddOp, SubOp>>)}

NoParser == Node("none", <<>>, <<>>)

VARIABLES
  st,      \* the caller's cursor
  prs,     \* the parser of the last Run
  start,   \* the cursor that Run was given
  res,     \* what that Run produced
  memo,    \* the memo cell of the Lazy parser: "nil" until its first Run
  halted,  \* TRUE once a call has aborted or cannot return
  pc,      \* per thread: where it stands in the Run closure of Lazy
  arg,     \* per thread: the curState its Run was called with
  local,   \* per thread: the parser object its own call of f() returned
  calls,   \* how many times the factory f has been invoked
  ran      \* per thread: the parser object it ran through memo, and the outcome

threadVars == <<pc, arg, local, calls, ran>>

vars == <<st, prs, start, res, memo, halted, pc, arg, local, calls, ran>>

\* the goroutines that share one Lazy parser
Threads == {1, 2}

NoThreads ==
  /\ pc = [t \in Threads |-> "idle"]
  /\ arg = [t \in Threads |-> ZeroState]
  /\ local = [t \in Threads |-> "nil"]
  /\ calls = 0
  /\ ran = [t \in Threads |-> [parser |-> "nil", out |-> "none"]]

Init ==
  /\ \E input \in Inputs : st = NewState(input, StartPosition)
  /\ prs = NoParser
  /\ start = st
  /\ res = NoReturn("none", ZeroRune, st)
  /\ memo = "nil"
  /\ halted = FALSE
  /\ NoThreads

\* parsers whose Run enters the Run of the Lazy parser first thing
RECURSIVE UsesLazy(_)
UsesLazy(p) ==
  \/ p.k = "Lazy"
  \/ \E i \in 1..Len(p.ps) : UsesLazy(p.ps[i])

Idle(s) ==
  /\ prs' = NoParser
  /\ start' = s
  /\ res' = NoReturn("none", ZeroRune, s)

\* the caller, holding no result, runs p on its cursor
RunParser(p) ==
  /\ ~halted
  /\ prs = NoParser
  /\ LET r == Run(p, st, RunDepth)
     IN /\ prs' = p
        /\ start' = st
        /\ res' = r
        /\ st' = r.Cur
        /\ halted' = ~Returned(r)
        /\ memo' = IF UsesLazy(p) /\ r.out # "deep" THEN "built" ELSE memo
  /\ UNCHANGED threadVars

\* the call s.Consume(n) as the caller sees it: text as Value, ok as out
ConsumeCall(cn) ==
  [out |-> IF cn.panic THEN "panic" ELSE IF cn.ok THEN "ok" ELSE "err",
   Value |-> VString(cn.text), NextState |-> cn.s, Span |-> cn.span,
   Err |-> NoError, Cur |-> cn.s]

\* the call s.ProgressLine() as the caller sees it
ProgressLineCall(pl) ==
  [out |-> IF pl.panic THEN "panic" ELSE "ok",
   Value |-> Unit, NextState |-> pl.s, Span |-> ZeroSpan,
   Err |-> NoError, Cur |-> pl.s]

\* the caller, holding no result, calls st.Consume(n) itself
DoConsume ==
  /\ ~halted
  /\ prs = NoParser
  /\ \E n \in 0..MaxConsume :
       /\ prs' = Node("Consume", <<ToString(n)>>, <<>>)
       /\ res' = ConsumeCall(Consume(st, n))
  /\ start' = st
  /\ st' = res'.Cur
  /\ halted' = (res'.out = "panic")
  /\ UNCHANGED <<memo, threadVars>>

\* the caller, holding no result, calls st.ProgressLine() itself
DoProgressLine ==
  /\ ~halted
  /\ prs = NoParser
  /\ prs' = Node("ProgressLine", <<>>, <<>>)
  /\ res' = ProgressLineCall(ProgressLine(st))
  /\ start' = st
  /\ st' = res'.Cur
  /\ halted' = (res'.out = "panic")
  /\ UNCHANGED <<memo, threadVars>>

\* after a success the caller continues from Result.NextState
Advance ==
  /\ ~halted
  /\ res.out = "ok"
  /\ st' = res.NextState
  /\ Idle(res.NextState)
  /\ UNCHANGED <<memo, halted, threadVars>>

\* after a failure the caller goes on with the cursor as Run left it
Recover ==
  /\ ~halted
  /\ res.out = "err"
  /\ st' = st
  /\ Idle(st)
  /\ UNCHANGED <<memo, halted, threadVars>>

RunRune == \E p \in RuneLeaves : RunParser(p)
RunString == \E s \in Literals : RunParser(PString(s))
RunOr == \E a \in RunePool, b \in SmallLeaves : RunParser(POr(<<a, b>>))
RunAnd == \E a \in RunePool, b \in SmallLeaves : RunParser(PAnd(<<a, b>>))
RunMany0 == \E p \in RunePool : RunParser(PMany0(p))
RunMany1 == \E p \in RunePool : RunParser(PMany1(p))
RunOptional == \E p \in RunePool : RunParser(POptional(p))
RunSequence == \E a \in RunePool, b \in SmallLeaves : RunParser(PSequence(<<a, b>>))
RunThen == \E a \in RunePool, b \in RuneLeaves : RunParser(PThen(a, b))
RunKeepLeft == \E a \in SmallLeaves, b \in RuneLeaves : RunParser(PKeepLeft(PThen(a, b)))
RunKeepRight == \E a \in SmallLeaves, b \in RuneLeaves : RunParser(PKeepRight(PThen(a, b)))
RunBetween ==
  \E open \in {PRune("("), PRune("x")}, content \in RunePool, close \in {PRune(")"), PRune("\n")} :
    RunParser(PBetween(open, content, close))
RunLazy == RunParser(PLazy("parens"))
RunMap == \E p \in {IntOperand, AddOp, SubOp} : RunParser(p)
RunDigit == RunParser(PDigit)
RunChainl1 == \E op \in ChainOps : RunParser(PChainl1(IntOperand, op))
RunChainr1 == \E op \in ChainOps : RunParser(PChainr1(IntOperand, op))
RunCharWhere == \E p \in PtrLeaves : RunParser(p)
RunStringCI == \E s \in Literals : RunParser(PStringCI(s))
RunTry == \E p \in PtrPool : RunParser(PTry(p))
RunTakeWhile == \E n \in {"Digit", "Alpha", "Any"} : RunParser(PTakeWhile(n))
RunSeparatedBy ==
  \E p \in PtrPool, q \in PtrLeaves \cup {PNot(PCharWhere("Digit"))} :
    RunParser(PSeparatedBy(p, q))
RunManyTill == \E p \in PtrPool, q \in PtrLeaves : RunParser(PManyTill(p, q))
RunNot == \E p \in PtrPool : RunParser(PNot(p))
RunTryByValue == \E p \in RunePool : RunParser(PTryByValue(p))
RunNotByValue == \E p \in SmallLeaves \cup {PDigit} : RunParser(PNotByValue(p))
RunLexeme == \E p \in SmallLeaves \cup {PString(<<"x", " ">>)} : RunParser(PLexeme(p))
RunManyTillByValue ==
  \E p \in SmallLeaves \cup {PDigit}, q \in SmallLeaves \cup {PRune(";")} :
    RunParser(PManyTillByValue(p, q))

Next ==
  \/ DoConsume
  \/ DoProgressLine
  \/ Advance
  \/ Recover
  \/ RunRune
  \/ RunString
  \/ RunOr
  \/ RunAnd
  \/ RunMany0
  \/ RunMany1
  \/ RunOptional
  \/ RunSequence
  \/ RunThen
  \/ RunKeepLeft
  \/ RunKeepRight
  \/ RunBetween
  \/ RunLazy
  \/ RunMap
  \/ RunDigit
  \/ RunChainl1
  \/ RunChainr1
  \/ RunCharWhere
  \/ RunStringCI
  \/ RunTry
  \/ RunTakeWhile
  \/ RunSeparatedBy
  \/ RunManyTill
  \/ RunNot
  \/ RunNotByValue
  \/ RunTryByValue
  \/ RunManyTillByValue
  \/ RunLexeme

Spec == Init /\ [][Next]_vars

TypeOK ==
  /\ res.out \in {"none", "ok", "err", "panic", "loop", "deep"}
  /\ halted \in BOOLEAN
  /\ memo \in {"nil", "built"}

\* ------------------------------------------- Lazy shared by two goroutines
\* The Run closure of Lazy, statement by statement, run by each thread on
\* the one memo variable the closure captured. The closure takes no lock, so
\* the threads interleave between any two statements.

\* the cursors the threads call Run with
ThreadInputs == { <<"x">>, <<"(", "x", ")">>, <<"(", "(", "y", ")", ")">> }

\* the pointer to the parser object that thread t's call of f() allocated
ObjectOf(t) == IF t = 1 THEN "p1" ELSE "p2"

LazyInit ==
  /\ st = NewState(<<"x">>, StartPosition)
  /\ prs = NoParser
  /\ start = st
  /\ res = NoReturn("none", ZeroRune, st)
  /\ memo = "nil"
  /\ halted = FALSE
  /\ NoThreads

\* thread t calls Run(curState) on the shared Lazy parser
Call(t) ==
  /\ pc[t] = "idle"
  /\ \E input \in ThreadInputs : arg' = [arg EXCEPT ![t] = NewState(input, StartPosition)]
  /\ pc' = [pc EXCEPT ![t] = "test"]
  /\ UNCHANGED <<memo, local, calls, ran, st, prs, start, res, halted>>

\* the closure entry with the nil test dropped: every Run calls the factory
TestMemoAlwaysBuilds(t) ==
  /\ pc[t] = "test"
  /\ pc' = [pc EXCEPT ![t] = "factory"]
  /\ UNCHANGED <<memo, arg, local, calls, ran, st, prs, start, res, halted>>

\* if memo == nil
TestMemo(t) ==
  /\ pc[t] = "test"
  /\ pc' = [pc EXCEPT ![t] = IF memo = "nil" THEN "factory" ELSE "run"]
  /\ UNCHANGED <<memo, arg, local, calls, ran, st, prs, start, res, halted>>

\* p := f()
CallFactory(t) ==
  /\ pc[t] = "factory"
  /\ local' = [local EXCEPT ![t] = ObjectOf(t)]
  /\ calls' = calls + 1
  /\ pc' = [pc EXCEPT ![t] = "store"]
  /\ UNCHANGED <<memo, arg, ran, st, prs, start, res, halted>>

\* memo = &p
StoreMemo(t) ==
  /\ pc[t] = "store"
  /\ memo' = local[t]
  /\ pc' = [pc EXCEPT ![t] = "run"]
  /\ UNCHANGED <<arg, local, calls, ran, st, prs, start, res, halted>>

\* memo.Run(curState) reaches the Lazy parser again: the built parser's
\* Between has consumed '(' and runs its content, the same Run closure, on
\* the cursor after it
ReEnter(t) ==
  /\ pc[t] = "run"
  /\ RuneParser("(", arg[t]).out = "ok"
  /\ ran' = [ran EXCEPT ![t] = [parser |-> memo, out |-> ran[t].out]]
  /\ arg' = [arg EXCEPT ![t] = RuneParser("(", arg[t]).NextState]
  /\ pc' = [pc EXCEPT ![t] = "test"]
  /\ UNCHANGED <<memo, local, calls, st, prs, start, res, halted>>

\* return memo.Run(curState), on a cursor where the built parser does not
\* reach the Lazy parser again
RunMemo(t) ==
  /\ pc[t] = "run"
  /\ RuneParser("(", arg[t]).out # "ok"
  /\ ran' = [ran EXCEPT ![t] =
               [parser |-> memo, out |-> Run(ParensFactory, arg[t], RunDepth).out]]
  /\ pc' = [pc EXCEPT ![t] = "done"]
  /\ UNCHANGED <<memo, arg, local, calls, st, prs, start, res, halted>>

\* the caller has its result and may call Run again
Return(t) ==
  /\ pc[t] = "done"
  /\ pc' = [pc EXCEPT ![t] = "idle"]
  /\ UNCHANGED <<memo, arg, local, calls, ran, st, prs, start, res, halted>>

LazyNext ==
  \/ \E t \in Threads : Call(t)
  \/ \E t \in Threads : TestMemo(t)
  \/ \E t \in Threads : CallFactory(t)
  \/ \E t \in Threads : StoreMemo(t)
  \/ \E t \in Threads : ReEnter(t)
  \/ \E t \in Threads : RunMemo(t)
  \/ \E t \in Threads : Return(t)

LazySpec == LazyInit /\ [][LazyNext]_vars

\* one caller at a time: Run is called only when no other Run is in progress
SeqCall(t) ==
  /\ \A u \in Threads : pc[u] \in {"idle", "done"}
  /\ Call(t)

LazySeqNext ==
  \/ \E t \in Threads : SeqCall(t)
  \/ \E t \in Threads : TestMemo(t)
  \/ \E t \in Threads : CallFactory(t)
  \/ \E t \in Threads : StoreMemo(t)
  \/ \E t \in Threads : ReEnter(t)
  \/ \E t \in Threads : RunMemo(t)
  \/ \E t \in Threads : Return(t)

LazySeqSpec == LazyInit /\ [][LazySeqNext]_vars

\* ------------------------------------------------------------- properties
\* In the properties "fails" means that Run returned an Error with a
\* non-empty Message (out = "err") and "succeeds" that it returned a Result
\* with Error{} (out = "ok").

SamePosition(s1, s2) == NewPositionFromState(s1) = NewPositionFromState(s2)

SameCursor(s1, s2) == s1.Input = s2.Input /\ SamePosition(s1, s2)

\* what a sub-parser q does when run on cursor s
Sub(q, s) == Run(q, s, RunDepth)

\* the cursor after k consecutive successes of q from s
RECURSIVE AfterSuccesses(_, _, _)
AfterSuccesses(q, s, k) ==
  IF k = 0 THEN s ELSE Sub(q, AfterSuccesses(q, s, k - 1)).NextState

\* C1: a Run that returns an error leaves the cursor's offset, line and column
\* as they were before the call, for every primitive and combinator.
C1_NoConsumptionOnFailure ==
  res.out = "err" => SamePosition(st, start)

\* C2: Sequence(p1, p2) runs p2 at the cursor where p1 ended, returns p2's
\* value and next cursor, and fails with the cursor at the pre-sequence
\* position when p1 or p2 fails.
C2_SequenceThreads ==
  (prs.k = "Sequence" /\ Returned(res)) =>
    LET r1 == Sub(prs.ps[1], start)
        r2 == Sub(prs.ps[2], r1.NextState)
    IN /\ (r1.out = "ok" /\ r2.out = "ok") =>
            (res.out = "ok" /\ res.Value = r2.Value /\ res.NextState = r2.NextState)
       /\ (r1.out = "err" \/ (r1.out = "ok" /\ r2.out = "err")) =>
            (res.out = "err" /\ SamePosition(st, start))

\* C3: Or returns the value, next cursor and span of the first alternative, in
\* argument order, that succeeds at the starting cursor; alternatives after it
\* have no influence.
C3_OrFirstMatchWins ==
  prs.k = "Or" =>
    \A i \in 1..Len(prs.ps) :
      ( /\ Sub(prs.ps[i], start).out = "ok"
        /\ \A j \in 1..(i - 1) : Sub(prs.ps[j], start).out = "err" ) =>
        /\ res.out = "ok"
        /\ res.Value = Sub(prs.ps[i], start).Value
        /\ res.NextState = Sub(prs.ps[i], start).NextState
        /\ res.Span = Sub(prs.ps[i], start).Span

\* an Or whose two alternatives both match, with different next cursors, and
\* that returned the first one's
C3_Witness ==
  /\ prs.k = "Or"
  /\ Sub(prs.ps[1], start).out = "ok"
  /\ Sub(prs.ps[2], start).out = "ok"
  /\ Sub(prs.ps[1], start).NextState # Sub(prs.ps[2], start).NextState
  /\ res.NextState = Sub(prs.ps[1], start).NextState

C5_Many0MaximalRun ==
  prs.k = "Many0" =>
    /\ res.out # "err"
    /\ res.out = "ok" =>
         LET q == prs.ps[1]
             n == Len(res.Value)
         IN /\ \A k \in 1..n :
                 /\ Sub(q, AfterSuccesses(q, start, k - 1)).out = "ok"
                 /\ Sub(q, AfterSuccesses(q, start, k - 1)).Value = << res.Value[k] >>
            /\ Sub(q, AfterSuccesses(q, start, n)).out = "err"
            /\ res.NextState = AfterSuccesses(q, start, n)

\* Many0 returned two or more values and stopped before the end of the input
C5_Witness ==
  /\ prs.k = "Many0"
  /\ res.out = "ok"
  /\ Len(res.Value) >= 2
  /\ res.NextState.Offset < Len(start.Input)

\* C6: Many1(p) fails, with the cursor where it started, when p fails at the
\* starting cursor; when p succeeds there Many1 returns all the consecutive
\* successes (at least one).
C6_Many1 ==
  (prs.k = "Many1" /\ Returned(res)) =>
    LET q == prs.ps[1]
        n == Len(res.Value)
    IN /\ res.out = "ok" <=> Sub(q, start).out = "ok"
       /\ res.out = "err" => SamePosition(st, start)
       /\ res.out = "ok" =>
            /\ n >= 1
            /\ \A k \in 1..n :
                 /\ Sub(q, AfterSuccesses(q, start, k - 1)).out = "ok"
                 /\ Sub(q, AfterSuccesses(q, start, k - 1)).Value = << res.Value[k] >>
            /\ Sub(q, AfterSuccesses(q, start, n)).out = "err"
            /\ res.NextState = AfterSuccesses(q, start, n)

\* Many1 of 'x' on "abc" failed and the cursor is at offset 0
C6_Witness ==
  /\ prs = PMany1(PRune("x"))
  /\ start.Input = <<"a", "b", "c">>
  /\ res.out = "err"
  /\ st.Offset = 0 /\ st.Line = 1 /\ st.Column = 1

\* C7: Optional(p) never fails; it returns p's result when p succeeds, and
\* when p fails it succeeds with a next cursor equal to the starting cursor.
C7_OptionalKeepsCursor ==
  (prs.k = "Optional" /\ Returned(res)) =>
    LET r == Sub(prs.ps[1], start)
    IN /\ res.out = "ok"
       /\ r.out = "ok" => (res.Value = r.Value /\ res.NextState = r.NextState)
       /\ r.out = "err" => SameCursor(res.NextState, start)

\* C8: Between(open, content, close) runs the three in sequence, each from
\* the cursor the previous one returned; it succeeds exactly when all three
\* do, returning content's value and the cursor after close, and otherwise
\* fails with the cursor where it was before open.
C8_Between ==
  (prs.k = "Between" /\ Returned(res)) =>
    LET o == Sub(prs.ps[1], start)
        c == Sub(prs.ps[2], o.NextState)
        cl == Sub(prs.ps[3], c.NextState)
    IN /\ res.out = "ok" <=> (o.out = "ok" /\ c.out = "ok" /\ cl.out = "ok")
       /\ res.out = "ok" => (res.Value = c.Value /\ res.NextState = cl.NextState)
       /\ res.out = "err" => SamePosition(st, start)

\* Between('(', 'x', ')') on "(x)" returned 'x' and consumed three characters
C8_Witness ==
  /\ prs = PBetween(PRune("("), PRune("x"), PRune(")"))
  /\ start.Input = <<"(", "x", ")">> /\ start.Offset = 0
  /\ res.out = "ok"
  /\ res.Value = VRune("x")
  /\ res.NextState.Offset = 3

\* C9: Then(p1, p2) runs p2 from the cursor p1 returned; it succeeds exactly
\* when both do, with Pair{p1's value, p2's value} and p2's next cursor, and
\* fails when p1 fails or p2 fails after p1.
C9_Then ==
  (prs.k = "Then" /\ Returned(res)) =>
    LET l == Sub(prs.ps[1], start)
        r == Sub(prs.ps[2], l.NextState)
    IN /\ res.out = "ok" <=> (l.out = "ok" /\ r.out = "ok")
       /\ res.out = "ok" =>
            /\ res.Value = VPair(l.Value, r.Value)
            /\ res.NextState = r.NextState
       /\ (prs = PThen(PRune("x"), PRune(";"))
             /\ start.Offset = 0
             /\ start.Input \in {<<"x">>, <<"\n">>, <<>>}) => res.out = "err"

\* 'x' then ';' on "x;" returned the pair ('x', ';') with the cursor at 2
C9_Witness ==
  /\ prs = PThen(PRune("x"), PRune(";"))
  /\ start.Input = <<"x", ";">> /\ start.Offset = 0
  /\ res.out = "ok"
  /\ res.Value = VPair(VRune("x"), VRune(";"))
  /\ res.NextState.Offset = 2

\* the number of '(' in input from offset off on
RECURSIVE OpenRun(_, _)
OpenRun(input, off) ==
  IF off < Len(input) /\ input[off + 1] = "(" THEN 1 + OpenRun(input, off + 1) ELSE 0

\* input has, at offset off, k times '(' then 'x' then k times ')'
Nested(input, off) ==
  LET k == OpenRun(input, off)
  IN /\ off + 2 * k + 1 <= Len(input)
     /\ input[off + k + 1] = "x"
     /\ \A i \in 1..k : input[off + k + 1 + i] = ")"

\* C10: a Run of the recursive grammar parens := 'x' | '(' parens ')' built
\* with Lazy always returns: with 'x' and the cursor after the nesting when
\* the input is a balanced nesting around 'x', with an error otherwise.
C10_LazyTerminates ==
  prs = PLazy("parens") =>
    /\ Returned(res)
    /\ res.out = "ok" <=> Nested(start.Input, start.Offset)
    /\ res.out = "ok" =>
         /\ res.Value = VRune("x")
         /\ res.NextState.Offset = start.Offset + 2 * OpenRun(start.Input, start.Offset) + 1

\* the grammar returned 'x' for "(((x)))"
C10_Witness ==
  /\ prs = PLazy("parens")
  /\ start.Input = <<"(", "(", "(", "x", ")", ")", ")">> /\ start.Offset = 0
  /\ res.out = "ok"
  /\ res.Value = VRune("x")
  /\ res.NextState.Offset = 7

\* the grammar returned an error for "((y))"
C10_Rejects ==
  /\ prs = PLazy("parens")
  /\ start.Input = <<"(", "(", "y", ")", ")">> /\ start.Offset = 0
  /\ res.out = "err"

\* C11: when two threads concurrently make the first Run of one Lazy parser,
\* the factory is invoked exactly once and both threads run the same built
\* parser.
C11_LazyBuildsOnce ==
  /\ calls <= 1
  /\ \A t, u \in Threads :
       (pc[t] = "done" /\ pc[u] = "done") => ran[t].parser = ran[u].parser

\* the characters op accepts: '+' for AddOp, '+' and '-' for the Or of both
OpChars(op) == IF op = AddOp THEN {"+"} ELSE {"+", "-"}

IsDigit(input, i) == i >= 1 /\ i <= Len(input) /\ Predicate("Digit", input[i])

\* the number k of (op p) pairs that follow the operand at index i
RECURSIVE ChainPairs(_, _, _)
ChainPairs(input, i, opChars) ==
  IF i + 1 <= Len(input) /\ input[i + 1] \in opChars /\ IsDigit(input, i + 2)
    THEN 1 + ChainPairs(input, i + 2, opChars)
    ELSE 0

\* input[i..] is p (op p)^k and no operator is left dangling after it
IsChain(input, i, opChars) ==
  /\ IsDigit(input, i)
  /\ LET last == i + 2 * ChainPairs(input, i, opChars)
     IN ~(last + 1 <= Len(input) /\ input[last + 1] \in opChars)

Arith(opChar, a, b) == IF opChar = "+" THEN a + b ELSE a - b

\* ((v1 op1 v2) op2 v3) ... over the k pairs after index i
RECURSIVE LeftFold(_, _, _)
LeftFold(input, i, k) ==
  IF k = 0 THEN DigitValue(input[i])
  ELSE Arith(input[i + 2 * k - 1], LeftFold(input, i, k - 1), DigitValue(input[i + 2 * k]))

\* v1 op1 (v2 op2 (v3 ...)) over the k pairs after index i
RECURSIVE RightFold(_, _, _)
RightFold(input, i, k) ==
  IF k = 0 THEN DigitValue(input[i])
  ELSE Arith(input[i + 1], DigitValue(input[i]), RightFold(input, i + 2, k - 1))

\* C12: run on an input of the form p (op p)^k, Chainl1(p, op) succeeds with
\* the left fold ((v1 op1 v2) op2 v3)... as its value, and the next cursor is
\* right after the whole chain.
C12_Chainl1LeftFold ==
  (prs.k = "Chainl1" /\ Returned(res)
     /\ IsChain(start.Input, start.Offset + 1, OpChars(prs.ps[2]))) =>
    LET k == ChainPairs(start.Input, start.Offset + 1, OpChars(prs.ps[2]))
    IN /\ res.out = "ok"
       /\ res.Value = VInt(LeftFold(start.Input, start.Offset + 1, k))
       /\ res.NextState.Offset = start.Offset + 2 * k + 1
       /\ res.NextState.Column = start.Column + 2 * k + 1
       /\ res.NextState.Line = start.Line
       /\ res.NextState.Input = start.Input

\* "1-2-9" is folded as (1-2)-9 = -10, and "1+2+9" as 12
C12_Witness ==
  /\ prs = PChainl1(IntOperand, POr(<<AddOp, SubOp>>))
  /\ start.Input = <<"1", "-", "2", "-", "9">>
  /\ start.Offset = 0
  /\ res.out = "ok"
  /\ res.Value = VInt(-10)
  /\ res.NextState.Offset = 5

\* C13: run on an input of the form p (op p)^k, Chainr1(p, op) succeeds with
\* the right fold v1 op1 (v2 op2 (v3 ...)) as its value.
C13_Chainr1RightFold ==
  (prs.k = "Chainr1" /\ Returned(res)
     /\ IsChain(start.Input, start.Offset + 1, OpChars(prs.ps[2]))) =>
    LET k == ChainPairs(start.Input, start.Offset + 1, OpChars(prs.ps[2]))
    IN /\ res.out = "ok"
       /\ res.Value = VInt(RightFold(start.Input, start.Offset + 1, k))
       /\ res.NextState.Offset = start.Offset + 2 * k + 1

\* "1-2-9" is folded as 1-(2-9) = 8
C13_Witness ==
  /\ prs = PChainr1(IntOperand, POr(<<AddOp, SubOp>>))
  /\ start.Input = <<"1", "-", "2", "-", "9">>
  /\ start.Offset = 0
  /\ res.out = "ok"
  /\ res.Value = VInt(8)

\* ---------------------------------------------- the cursor's stated contract
\* the n of the recorded call Consume(n)
ConsumeCount(p) == CHOOSE n \in 0..MaxConsume : ToString(n) = p.a[1]

\* input has CR LF at indices i, i + 1
PairAt(input, i) ==
  i >= 1 /\ i + 1 <= Len(input) /\ input[i] = "\r" /\ input[i + 1] = "\n"

\* the position after the stated consumption of n units from pos: a CR-LF
\* pair moves the offset by 2 and starts a line, a lone terminator moves it
\* by 1 and starts a line, any other character moves offset and column by 1.
\* pairCost is how many of the n units a CR-LF pair counts for (1 as one
\* terminator, 2 as two code points); ok is FALSE when the input ends first
RECURSIVE Walk(_, _, _, _)
Walk(input, pos, n, pairCost) ==
  IF n = 0 THEN [pos |-> pos, ok |-> TRUE]
  ELSE IF pos.Offset >= Len(input) THEN [pos |-> pos, ok |-> FALSE]
  ELSE IF PairAt(input, pos.Offset + 1)
    THEN Walk(input, [Offset |-> pos.Offset + 2, Line |-> pos.Line + 1, Column |-> 1],
              IF n < pairCost THEN 0 ELSE n - pairCost, pairCost)
  ELSE IF isNewLineChar(input[pos.Offset + 1])
    THEN Walk(input, [Offset |-> pos.Offset + 1, Line |-> pos.Line + 1, Column |-> 1],
              n - 1, pairCost)
  ELSE Walk(input, [Offset |-> pos.Offset + 1, Line |-> pos.Line, Column |-> pos.Column + 1],
            n - 1, pairCost)

\* the positions the contract allows after a successful Consume(n) from s
Expected(s, n) ==
  { w.pos : w \in { v \in { Walk(s.Input, NewPositionFromState(s), n, c) : c \in {1, 2} } : v.ok } }

\* the first n bytes from s hold the CR of a CR-LF pair
CrossesPair(s, n) ==
  \E i \in (s.Offset + 1)..(s.Offset + n) : PairAt(s.Input, i)

\* every CR of the input is followed by LF
NoLoneCR(input) ==
  \A i \in 1..Len(input) : input[i] = "\r" => PairAt(input, i)

\* C14: a Consume that crosses a CR-LF pair and returns ok moves the offset
\* by 2 for the pair, the line by 1 and the column to 1, and every further
\* character of the new line moves only offset and column: the cursor ends
\* at the position of the stated walk.
C14_CRLFOneTerminator ==
  (prs.k = "Consume" /\ res.out = "ok" /\ NoLoneCR(start.Input)
     /\ CrossesPair(start, ConsumeCount(prs))) =>
    NewPositionFromState(res.NextState) \in Expected(start, ConsumeCount(prs))

\* C16: Consume(n) either returns ok with the cursor advanced over exactly n
\* units, or, when fewer than n remain, returns not-ok with empty text and
\* offset, line and column as before the call.
C16_ConsumeAllOrNothing ==
  (prs.k = "Consume" /\ Returned(res)) =>
    \/ /\ res.out = "ok"
       /\ NewPositionFromState(res.NextState) \in Expected(start, ConsumeCount(prs))
    \/ /\ res.out = "err"
       /\ Expected(start, ConsumeCount(prs)) = {}
       /\ res.Value = VString(<<>>)
       /\ SamePosition(st, start)

\* C17: the offset of every cursor the caller holds or is handed is at most
\* len(input).
C17_OffsetWithinInput ==
  /\ st.Offset <= Len(st.Input)
  /\ res.out = "ok" => res.NextState.Offset <= Len(res.NextState.Input)

\* C18: no call of Consume and no parser run aborts: each returns a Result
\* or an Error.
C18_NoAbort ==
  prs.k # "ProgressLine" => res.out # "panic"

\* C15: every successful Run returns a next cursor whose offset is at least
\* the offset the run started at, and equal to it only when the run left the
\* position where it was.
C15_MonotonicOffsets ==
  (prs.k \notin {"none", "Consume", "ProgressLine"} /\ res.out = "ok") =>
    /\ res.NextState.Offset >= start.Offset
    /\ res.NextState.Offset = start.Offset => SamePosition(res.NextState, start)

\* what the contract of ManyTill(p, end) yields from cursor s with the values
\* vals collected: it stops with "end" where end matches, with "eof" at the
\* end of the input, with "fail" where p fails; "loop" when p matches
\* without moving
RECURSIVE Till(_, _, _, _, _)
Till(p, end, s, vals, fuel) ==
  IF ~InBounds(s, s.Offset) THEN [stop |-> "eof", s |-> s, vals |-> vals]
  ELSE IF Sub(end, s).out = "ok" THEN [stop |-> "end", s |-> s, vals |-> vals]
  ELSE IF Sub(p, s).out # "ok" THEN [stop |-> "fail", s |-> s, vals |-> vals]
  ELSE IF fuel = 0 \/ SamePosition(Sub(p, s).NextState, s)
    THEN [stop |-> "loop", s |-> s, vals |-> vals]
  ELSE Till(p, end, Sub(p, s).NextState, vals \o Sub(p, s).Value, fuel - 1)

\* C19: when ManyTill(p, end) stops because end matches, it returns the
\* values p produced so far and leaves the cursor where end's match begins,
\* so that end still matches there.
C19_ManyTillLeavesEnd ==
  (prs.k = "ManyTill" /\ Returned(res)
     /\ Till(prs.ps[1], prs.ps[2], start, Nil, Len(start.Input)).stop = "end") =>
    LET ref == Till(prs.ps[1], prs.ps[2], start, Nil, Len(start.Input))
    IN /\ res.out = "ok"
       /\ res.Value = ref.vals
       /\ SameCursor(res.NextState, ref.s)
       /\ SameCursor(st, ref.s)
       /\ Sub(prs.ps[2], res.NextState).out = "ok"

\* "abc,D" with any character until ',': [a b c], offset 3, column 4
C19_Witness ==
  /\ prs = PManyTill(PCharWhere("Any"), PCharWhere("Comma"))
  /\ start.Input = <<"a", "b", "c", ",", "D">>
  /\ start.Offset = 0
  /\ res.out = "ok"
  /\ res.Value = VRune("a") \o VRune("b") \o VRune("c")
  /\ res.NextState.Offset = 3
  /\ res.NextState.Column = 4
  /\ res.NextState.Line = 1

\* C20: Not(p) leaves offset, line and column as they were before the call,
\* whether it succeeds or fails; it succeeds, with a zero-width span at that
\* position, exactly when p fails there.
C20_NotNeverMoves ==
  (prs.k \in {"Not", "NotByValue"} /\ Returned(res)) =>
    /\ SamePosition(st, start)
    /\ res.out = "ok" <=> Sub(prs.ps[1], start).out = "err"
    /\ res.out = "ok" =>
         /\ SamePosition(res.NextState, start)
         /\ res.Span = [Start |-> NewPositionFromState(start),
                         End |-> NewPositionFromState(start)]

RECURSIVE Separated(_, _, _, _, _)
Separated(p, delim, s, vals, fuel) ==
  IF Sub(delim, s).out # "ok" THEN [stop |-> "delim", s |-> s, vals |-> vals]
  ELSE IF Sub(p, Sub(delim, s).NextState).out # "ok"
    THEN [stop |-> "fail", s |-> s, vals |-> vals]
  ELSE IF fuel = 0 \/ SamePosition(Sub(p, Sub(delim, s).NextState).NextState, s)
    THEN [stop |-> "loop", s |-> s, vals |-> vals]
  ELSE Separated(p, delim, Sub(p, Sub(delim, s).NextState).NextState,
                 vals \o Sub(p, Sub(delim, s).NextState).Value, fuel - 1)

\* the walk of SeparatedBy(p, delim) from cursor s
SeparatedFrom(p, delim, s) ==
  IF Sub(p, s).out # "ok" THEN [stop |-> "fail", s |-> s, vals |-> Nil]
  ELSE Separated(p, delim, Sub(p, s).NextState, Sub(p, s).Value, Len(s.Input))

\* C22: SeparatedBy(p, delim) succeeds with the values read and the cursor at
\* the first position where delim fails; it fails, with the cursor back where
\* it started, when the first p fails or when p fails after a delimiter.
C22_SeparatedBy ==
  (prs.k = "SeparatedBy" /\ Returned(res)
     /\ \A i \in 1..2 : Returned(Sub(prs.ps[i], start))
     /\ SeparatedFrom(prs.ps[1], prs.ps[2], start).stop # "loop") =>
    LET ref == SeparatedFrom(prs.ps[1], prs.ps[2], start)
    IN /\ ref.stop = "delim" =>
            /\ res.out = "ok"
            /\ res.Value = ref.vals
            /\ SameCursor(res.NextState, ref.s)
            /\ SameCursor(st, ref.s)
       /\ ref.stop = "fail" =>
            /\ res.out = "err"
            /\ SamePosition(st, start)

\* the length of the longest run of bytes from index i on that satisfy f
RECURSIVE RunLength(_, _, _)
RunLength(name, input, i) ==
  IF i <= Len(input) /\ Predicate(name, input[i])
    THEN 1 + RunLength(name, input, i + 1)
    ELSE 0

\* C23: TakeWhile(f) succeeds with the longest prefix of the remaining input
\* whose bytes all satisfy f as its value, and with the next cursor right
\* after that prefix.
C23_TakeWhileLongestPrefix ==
  (prs.k = "TakeWhile" /\ Returned(res)) =>
    LET n == RunLength(prs.a[1], start.Input, start.Offset + 1)
    IN /\ res.out = "ok"
       /\ res.Value = VString(SubSeq(start.Input, start.Offset + 1, start.Offset + n))
       /\ res.NextState.Offset = start.Offset + n
       /\ res.NextState.Input = start.Input

\* C24: every parser run that returns is either a success with an Error
\* whose Message is empty or a failure with an Error whose Message is not
\* empty; Optional and Many0 return the empty Error whenever they return.
C24_ErrorSentinel ==
  (prs.k \notin {"none", "Consume", "ProgressLine"} /\ Returned(res)) =>
    /\ res.out = "ok" <=> ~HasError(res.Err)
    /\ res.out = "ok" => res.Err = NoError
    /\ prs.k \in {"Optional", "Many0"} => res.Err = NoError

\* Optional over a failing p, and Many0 over a p that fails at once
C24_Witness ==
  /\ prs.k \in {"Optional", "Many0"}
  /\ Sub(prs.ps[1], start).out = "err"
  /\ HasError(Sub(prs.ps[1], start).Err)
  /\ res.out = "ok"
  /\ res.Err = NoError

\* C25: every alternative of Or is attempted from the position Or started at:
\* what Or returns is what its first succeeding alternative returns when run
\* at that position, whatever the alternatives before it consumed before
\* they failed, and the caller's cursor stays where it was.
C25_OrSameStart ==
  (prs.k = "Or" /\ Returned(res)) =>
    /\ SamePosition(st, start)
    /\ res.out = "ok" =>
         \E i \in 1..Len(prs.ps) :
           /\ \A j \in 1..(i - 1) : Sub(prs.ps[j], start).out = "err"
           /\ Sub(prs.ps[i], start).out = "ok"
           /\ res.Value = Sub(prs.ps[i], start).Value
           /\ res.NextState = Sub(prs.ps[i], start).NextState
    /\ res.out = "err" =>
         /\ \A j \in 1..Len(prs.ps) : Sub(prs.ps[j], start).out = "err"
         /\ res.Err.Position = Sub(prs.ps[Len(prs.ps)], start).Err.Position

\* on "((" the first alternative '(' 'x' fails at offset 1, after the '(' was
\* consumed, and the second alternative '(' matches at offset 0
C25_Witness ==
  /\ prs = POr(<<PKeepLeft(PThen(PRune("("), PRune("x"))), PRune("(")>>)
  /\ start.Offset = 0
  /\ Sub(prs.ps[1], start).out = "err"
  /\ Sub(prs.ps[1], start).Err.Position.Offset = 1
  /\ res.out = "ok"
  /\ res.Span.Start.Offset = 0
  /\ res.NextState.Offset = 1

\* the parsers that run no sub-parser
Primitives == {"RuneParser", "StringParser", "CharWhere", "StringCI", "TakeWhile", "Digit"}

\* the last Error on the chain of Cause links from e
RECURSIVE RootCause(_)
RootCause(e) == IF e.Cause = <<>> THEN e ELSE RootCause(e.Cause[1])

\* C26: the Error of a combinator that failed because a sub-parser failed
\* has that sub-parser's Error as its Cause, so the chain of Cause links ends
\* in the Error of a primitive.
C26_CauseChain ==
  (prs.k \notin Primitives \cup {"none", "Consume", "ProgressLine", "Not", "NotByValue"}
     /\ res.out = "err") =>
    /\ res.Err.Cause # <<>>
    /\ HasError(RootCause(res.Err))
    /\ RootCause(res.Err).Message \in
         {"Reached the end of file while parsing", "Failed to parse",
          "Strings do not match.", "Char parser with predicate failed.",
          "Strings do not match (case-insensitive).", "Unexpected match in not."}

\* ------------------------------------------------ the line index of a cursor
\* s.Offset = n, as the tests place the cursor before a lookup
Seek ==
  /\ \E n \in 0..Len(st.Input) : st' = [st EXCEPT !.Offset = n]
  /\ Idle(st')
  /\ UNCHANGED <<memo, halted, threadVars>>

\* the caller calls st.LineStartBeforeCurrentOffset()
DoLineStart ==
  /\ prs = NoParser
  /\ prs' = Node("LineStartBeforeCurrentOffset", <<>>, <<>>)
  /\ res' = [out |-> "ok", Value |-> VInt(LineStartBeforeCurrentOffset(st)),
             NextState |-> st, Span |-> ZeroSpan, Err |-> NoError, Cur |-> st]
  /\ start' = st
  /\ UNCHANGED <<st, memo, halted, threadVars>>

\* the caller asks for the snippet of st, as the parsers do when they build
\* an Error
DoSnippet ==
  /\ prs = NoParser
  /\ prs' = Node("GetSnippetStringFromCurrentContext", <<>>, <<>>)
  /\ res' = [out |-> "ok", Value |-> VString(GetSnippetStringFromCurrentContext(st)),
             NextState |-> st, Span |-> ZeroSpan, Err |-> NoError, Cur |-> st]
  /\ start' = st
  /\ UNCHANGED <<st, memo, halted, threadVars>>

LineNext ==
  \/ Seek
  \/ DoLineStart
  \/ DoSnippet

LineSpec == Init /\ [][LineNext]_vars

\* ------------------------------------------------- checkpoint and rollback
\* start is the cursor as it was when the checkpoint was taken

\* startPos := NewPositionFromState(*s): the caller takes a checkpoint
SavePoint ==
  /\ ~halted
  /\ st' = st
  /\ Idle(st)
  /\ UNCHANGED <<memo, halted, threadVars>>

\* s.Consume(n) after the checkpoint, any number of times
ConsumeOn ==
  /\ ~halted
  /\ prs.k \in {"none", "Consume"}
  /\ \E n \in 0..MaxConsume :
       /\ prs' = Node("Consume", <<ToString(n)>>, <<>>)
       /\ res' = ConsumeCall(Consume(st, n))
  /\ st' = res'.Cur
  /\ halted' = (res'.out = "panic")
  /\ UNCHANGED <<start, memo, threadVars>>

\* s.UpdatePosition(startPos): the caller goes back to its checkpoint; res
\* keeps the last Consume's result
RollbackTo ==
  /\ ~halted
  /\ prs.k = "Consume"
  /\ prs' = Node("UpdatePosition", <<>>, <<>>)
  /\ st' = UpdatePosition(st, NewPositionFromState(start))
  /\ UNCHANGED <<start, res, memo, halted, threadVars>>

CheckpointNext ==
  \/ SavePoint
  \/ ConsumeOn
  \/ RollbackTo
  \/ RunTry

CheckpointSpec == Init /\ [][CheckpointNext]_vars

\* C27: constructing a Lazy parser does not call the factory; the first Run
\* calls it, and over any sequence of later Runs, re-entry through the built
\* parser included, the factory is called at most once in total and every
\* Run delegates to the one parser it built.
C27_LazyOnceSequential ==
  /\ calls <= 1
  /\ (\A t \in Threads : pc[t] = "idle" /\ ran[t].parser = "nil") => calls = 0
  /\ \A t \in Threads : pc[t] \in {"run", "done"} => (calls = 1 /\ memo # "nil")
  /\ \A t \in Threads : ran[t].parser # "nil" => ran[t].parser = memo

\* both callers have run "((y))"-like input to the end through re-entries
C27_Witness ==
  /\ \A t \in Threads : pc[t] = "done" /\ arg[t].Offset > 0 /\ ran[t].parser = memo
  /\ calls = 1

\* C28: on success Consume(n) returns a span that starts at the position
\* before the call and ends at the cursor's position after it, and the text
\* returned is exactly the input between the span's start and end offsets.
C28_ConsumeSpanAndText ==
  (prs.k = "Consume" /\ res.out = "ok") =>
    /\ res.Span.Start = NewPositionFromState(start)
    /\ res.Span.End = NewPositionFromState(st)
    /\ res.Value = VString(SubSeq(start.Input, res.Span.Start.Offset + 1,
                                  res.Span.End.Offset))

\* the offsets at which the cursor of s begins a new line: where
\* ProgressLine leaves it when called, and returning, on a newline character
\* of the input
BreakOffsets(s) ==
  { ProgressLine([s EXCEPT !.Offset = i]).s.Offset :
      i \in { j \in 0..(Len(s.Input) - 1) :
                /\ isNewLineChar(s.Input[j + 1])
                /\ ~ProgressLine([s EXCEPT !.Offset = j]).panic } }

LinearScan(s) ==
  CHOOSE i \in 0..(Len(s.LineStarts) - 1) :
    /\ s.LineStarts[i + 1] <= s.Offset
    /\ \A j \in 0..(Len(s.LineStarts) - 1) : s.LineStarts[j + 1] <= s.Offset => j <= i

\* C30: for a strictly increasing LineStarts that starts at 0 and an offset
\* in [0, len(input)], LineStartBeforeCurrentOffset returns the largest
\* index i with LineStarts[i] <= Offset, as a linear scan does.
C30_LineStartLookup ==
  (/\ prs.k = "LineStartBeforeCurrentOffset"
   /\ Len(st.LineStarts) >= 1
   /\ st.LineStarts[1] = 0
   /\ \A i \in 1..(Len(st.LineStarts) - 1) : st.LineStarts[i] < st.LineStarts[i + 1]
   /\ st.Offset \in 0..Len(st.Input)) =>
    IntOf(res.Value) = LinearScan(st)

\* "Second line offset": an offset inside the second of three lines
C30_Witness ==
  /\ prs.k = "LineStartBeforeCurrentOffset"
  /\ Len(st.LineStarts) >= 3
  /\ st.LineStarts[2] < st.Offset
  /\ st.Offset < st.LineStarts[3]
  /\ IntOf(res.Value) = 1

\* the index of the first newline character of s.Input at or after offset
\* i, len(Input) when there is none
RECURSIVE LineEndFrom(_, _)
LineEndFrom(s, i) ==
  IF i >= Len(s.Input) \/ isNewLineChar(s.Input[i + 1]) THEN i
  ELSE LineEndFrom(s, i + 1)

\* the text of the line of LineStarts that holds the offset of s, without
\* its terminator
CurrentLine(s) ==
  SubSeq(s.Input, s.LineStarts[LinearScan(s) + 1] + 1,
         LineEndFrom(s, s.LineStarts[LinearScan(s) + 1]))

\* C31: GetSnippetStringFromCurrentContext returns the text of the line
\* that holds the current offset, from the line's start up to its
\* terminator, so no CR or LF is in it; with an empty LineStarts it returns
\* the raw input.
C31_SnippetIsCurrentLine ==
  (prs.k = "GetSnippetStringFromCurrentContext" /\ st.Offset \in 0..Len(st.Input)) =>
    IF Len(st.LineStarts) = 0
      THEN res.Value = VString(st.Input)
      ELSE /\ res.Value = VString(CurrentLine(st))
           /\ \A i \in 1..Len(res.Value[1]) : ~isNewLineChar(res.Value[1][i])

\* C32: after a checkpoint, any sequence of consumes and a rollback to the
\* checkpoint, offset, line and column are all those of the checkpoint; so
\* after a Try whose parser failed.
C32_CheckpointRoundTrip ==
  /\ prs.k = "UpdatePosition" => SameCursor(st, start)
  /\ (prs.k = "Try" /\ Returned(res) /\ Sub(prs.ps[1], start).out = "err") =>
       SameCursor(st, start)

\* a rollback from the second line, two consumes after the checkpoint
C32_Witness ==
  /\ prs.k = "UpdatePosition"
  /\ res.out = "ok"
  /\ res.Cur.Offset >= start.Offset + 2
  /\ res.Cur.Line > start.Line
  /\ res.Cur.Column # start.Column

\* C33: when ManyTill(p, end) fails because p fails before end has matched,
\* the cursor is back at the position where ManyTill started, whatever
\* earlier iterations of p consumed.
C33_ManyTillRestoresStart ==
  (prs.k = "ManyTill" /\ res.out = "err"
     /\ Till(prs.ps[1], prs.ps[2], start, Nil, Len(start.Input)).stop = "fail") =>
    SameCursor(st, start)

\* C34: when end never matches and p succeeds at every position up to the
\* end of the input, ManyTill(p, end) succeeds with all of p's results and
\* a next cursor that has no input left.
C34_ManyTillToEndOfInput ==
  (prs.k \in {"ManyTill", "ManyTillByValue"} /\ Returned(res)
     /\ Till(prs.ps[1], prs.ps[2], start, Nil, Len(start.Input)).stop = "eof") =>
    /\ res.out = "ok"
    /\ res.Value = Till(prs.ps[1], prs.ps[2], start, Nil, Len(start.Input)).vals
    /\ SameCursor(res.NextState,
                  Till(prs.ps[1], prs.ps[2], start, Nil, Len(start.Input)).s)
    /\ ~InBounds(res.NextState, res.NextState.Offset)

\* digits until ',' on "5", and 'x' until ';' on "xxx"
C34_Witness ==
  /\ prs.k \in {"ManyTill", "ManyTillByValue"}
  /\ start.Offset = 0
  /\ Len(start.Input) >= 2
  /\ res.out = "ok"
  /\ Len(res.Value) = Len(start.Input)
  /\ res.NextState.Offset = Len(start.Input)

\* C35: Chainl1(p, op) and Chainr1(p, op) fail when no operand begins the
\* input (it is empty or starts with an operator) and when an operator is
\* matched with no operand after it; they do not succeed with the operands
\* before the dangling operator.
C35_ChainFailures ==
  (prs.k \in {"Chainl1", "Chainr1"} /\ Returned(res)
     /\ ~IsChain(start.Input, start.Offset + 1, OpChars(prs.ps[2]))) =>
    res.out = "err"

\* "1+": the operand, the operator and then the end of the input
C35_Witness ==
  /\ prs.k \in {"Chainl1", "Chainr1"}
  /\ start.Input = <<"1", "+">>
  /\ start.Offset = 0
  /\ res.out = "err"

\* how many space characters the input has in a row from index i on
RECURSIVE SpaceRun(_, _)
SpaceRun(input, i) ==
  IF i <= Len(input) /\ input[i] = " " THEN 1 + SpaceRun(input, i + 1) ELSE 0

\* C36: when p succeeds, Lexeme(p) returns p's value and a next cursor after
\* all the space characters that follow p's match in a row, on the same line
\* and at the first character that is not a space; when p fails, Lexeme
\* fails with p's error and the cursor is unchanged.
C36_LexemeSkipsSpaces ==
  (prs.k = "Lexeme" /\ Returned(res)) =>
    /\ Sub(prs.ps[1], start).out = "ok" =>
         /\ res.out = "ok"
         /\ res.Value = Sub(prs.ps[1], start).Value
         /\ res.NextState =
              [Sub(prs.ps[1], start).NextState EXCEPT
                 !.Offset = @ + SpaceRun(start.Input, @ + 1),
                 !.Column = @ + SpaceRun(start.Input,
                                         Sub(prs.ps[1], start).NextState.Offset + 1)]
    /\ Sub(prs.ps[1], start).out = "err" =>
         /\ res.out = "err"
         /\ res.Err = Sub(prs.ps[1], start).Err
         /\ SameCursor(st, start)

\* C37: no parser run and no cursor operation changes the input text: the
\* cursor after the operation, and the NextState of every success, hold the
\* Input of the cursor the operation started on.
C37_InputNeverChanges ==
  /\ st.Input = start.Input
  /\ (prs.k # "none" /\ res.out = "ok") => res.NextState.Input = start.Input

\* the bytes of input from the offset of s on
Remaining(s) == IF s.Offset < Len(s.Input) THEN Len(s.Input) - s.Offset ELSE 0

\* every successful run of q on the input of s ends at a larger offset than
\* it began at
AlwaysAdvances(q, s) ==
  \A o \in (0..Len(s.Input)) \cup {s.Offset} :
    Sub(q, [s EXCEPT !.Offset = o]).out = "ok" =>
      Sub(q, [s EXCEPT !.Offset = o]).NextState.Offset > o

\* C38: when every successful run of p advances the offset, Many0(p) and
\* Many1(p) terminate, after at most remaining-bytes-plus-one iterations of
\* their loop: the successes they collected and the failure that ended it.
C38_ManyTerminates ==
  (prs.k \in {"Many0", "Many1"} /\ AlwaysAdvances(prs.ps[1], start)) =>
    /\ res.out # "loop"
    /\ res.out = "ok" => Len(res.Value) + 1 <= Remaining(start) + 1

\* Many1 of 'x' on an input of x's only: as many iterations as the bound allows
C38_Witness ==
  /\ prs.k = "Many1"
  /\ AlwaysAdvances(prs.ps[1], start)
  /\ start.Offset = 0
  /\ Len(start.Input) >= 2
  /\ res.out = "ok"
  /\ Len(res.Value) = Len(start.Input)

\* C39: in every cursor state reached from offset 0, line 1, column 1 by
\* Consume calls on a non-empty input, line is LineStartBeforeCurrentOffset()
\* + 1 and column is offset - LineStarts[line - 1] + 1, so both are at least 1.
C39_LineColumnFromOffset ==
  (~halted /\ Len(st.Input) > 0) =>
    /\ LineStartBeforeCurrentOffset(st) >= 0
    /\ st.Line = LineStartBeforeCurrentOffset(st) + 1
    /\ st.Column = st.Offset - st.LineStarts[st.Line] + 1
    /\ st.Line >= 1
    /\ st.Column >= 1

\* C40: every successful run returns a span that starts at the position the
\* run started at and ends at the position of its NextState, so the span's
\* start offset is at most its end offset, and equal to it only when the run
\* consumed nothing.
C40_SpanMatchesRun ==
  (prs.k \notin {"none", "Consume", "ProgressLine"} /\ res.out = "ok") =>
    /\ res.Span.Start = NewPositionFromState(start)
    /\ res.Span.End = NewPositionFromState(res.NextState)
    /\ res.Span.Start.Offset <= res.Span.End.Offset
    /\ res.Span.Start.Offset = res.Span.End.Offset => SamePosition(res.NextState, start)

====
